---- MODULE Spec2Model ----
(***************************************************************************)
(* Model of the OAI-PMH harvest-and-reconcile pipeline of sdg-backend:     *)
(* services/oai_harvester.py (DaystarOAIHarvester), the Activity table of  *)
(* impact_tracker/models.py as seen through Django's update_or_create, and *)
(* the harvest_daystar_repository management command; and the response     *)
(* parsing of services/classifier.py (SDGClassifier).                      *)
(*                                                                         *)
(* Python strings are sequences of one-character strings; None is the      *)
(* one-element sequence NoneVal, which is no Python string of the model.   *)
(* A date object is <<year, month, day>>.                                  *)
(***************************************************************************)
EXTENDS Integers, Sequences, FiniteSets, TLC

\* ------------------------------------------------------------------ strings

NoneVal == <<"<None>">>

Upper == <<"A","B","C","D","E","F","G","H","I","J","K","L","M",
           "N","O","P","Q","R","S","T","U","V","W","X","Y","Z">>

Lowered == <<"a","b","c","d","e","f","g","h","i","j","k","l","m",
             "n","o","p","q","r","s","t","u","v","w","x","y","z">>

\* str.lower(), one character
LowerChar(c) ==
    IF \E i \in 1..Len(Upper) : Upper[i] = c
    THEN Lowered[CHOOSE i \in 1..Len(Upper) : Upper[i] = c]
    ELSE c

\* str.lower()
Lower(s) == [i \in 1..Len(s) |-> LowerChar(s[i])]

\* s.startswith(prefix)
StartsWith(s, prefix) ==
    /\ Len(s) >= Len(prefix)
    /\ SubSeq(s, 1, Len(prefix)) = prefix

\* sub in s
Contains(s, sub) ==
    \E i \in 0..(Len(s) - Len(sub)) : SubSeq(s, i + 1, i + Len(sub)) = sub

\* s.split(sep), sep one character
RECURSIVE Split(_, _)
Split(s, sep) ==
    IF \E i \in 1..Len(s) : s[i] = sep
    THEN LET i == CHOOSE j \in 1..Len(s) :
                      s[j] = sep /\ \A k \in 1..(j - 1) : s[k] # sep
         IN  <<SubSeq(s, 1, i - 1)>> \o Split(SubSeq(s, i + 1, Len(s)), sep)
    ELSE <<s>>

\* "; ".join(values)
RECURSIVE Join(_)
Join(values) ==
    IF Len(values) = 0 THEN <<>>
    ELSE IF Len(values) = 1 THEN values[1]
    ELSE values[1] \o <<";", " ">> \o Join(Tail(values))

\* [v for v in values if v is not None]
RECURSIVE Clean(_)
Clean(values) ==
    IF Len(values) = 0 THEN <<>>
    ELSE IF values[1] = NoneVal THEN Clean(Tail(values))
    ELSE <<values[1]>> \o Clean(Tail(values))

\* -------------------------------------------------------- datetime.strptime

Digits == {"0","1","2","3","4","5","6","7","8","9"}

DigitVal(c) ==
    CASE c = "0" -> 0 [] c = "1" -> 1 [] c = "2" -> 2 [] c = "3" -> 3
      [] c = "4" -> 4 [] c = "5" -> 5 [] c = "6" -> 6 [] c = "7" -> 7
      [] c = "8" -> 8 [] c = "9" -> 9

RECURSIVE NumVal(_)
NumVal(s) ==
    IF Len(s) = 0 THEN 0
    ELSE 10 * NumVal(SubSeq(s, 1, Len(s) - 1)) + DigitVal(s[Len(s)])

\* %Y: \d\d\d\d
IsYearText(s) == Len(s) = 4 /\ \A i \in 1..4 : s[i] \in Digits

\* %m: 1[0-2]|0[1-9]|[1-9]
IsMonthText(s) ==
    \/ Len(s) = 2 /\ s[1] = "1" /\ s[2] \in {"0","1","2"}
    \/ Len(s) = 2 /\ s[1] = "0" /\ s[2] \in Digits \ {"0"}
    \/ Len(s) = 1 /\ s[1] \in Digits \ {"0"}

\* %d: 3[0-1]|[1-2]\d|0[1-9]|[1-9]| [1-9]
IsDayText(s) ==
    \/ Len(s) = 2 /\ s[1] = "3" /\ s[2] \in {"0","1"}
    \/ Len(s) = 2 /\ s[1] \in {"1","2"} /\ s[2] \in Digits
    \/ Len(s) = 2 /\ s[1] \in {"0"," "} /\ s[2] \in Digits \ {"0"}
    \/ Len(s) = 1 /\ s[1] \in Digits \ {"0"}

IsLeap(y) == (y % 4 = 0 /\ y % 100 # 0) \/ y % 400 = 0

DaysIn(y, m) ==
    IF m = 2 THEN (IF IsLeap(y) THEN 29 ELSE 28)
    ELSE IF m \in {4, 6, 9, 11} THEN 30 ELSE 31

\* The day digits of a %d text (a leading blank is dropped)
DayVal(s) == IF s[1] = " " THEN NumVal(Tail(s)) ELSE NumVal(s)

\* datetime.strptime(s, "%Y-%m-%d").date(); exc = "ValueError" when it raises
StrptimeYMD(s) ==
    LET parts == Split(s, "-")
    IN  IF /\ Len(parts) = 3
           /\ IsYearText(parts[1])
           /\ IsMonthText(parts[2])
           /\ IsDayText(parts[3])
           /\ NumVal(parts[1]) >= 1
           /\ DayVal(parts[3]) <= DaysIn(NumVal(parts[1]), NumVal(parts[2]))
        THEN [exc |-> "",
              v |-> <<NumVal(parts[1]), NumVal(parts[2]), DayVal(parts[3])>>]
        ELSE [exc |-> "ValueError", v |-> <<>>]

\* datetime.strptime(s, "%Y").date()
StrptimeY(s) ==
    IF IsYearText(s) /\ NumVal(s) >= 1
    THEN [exc |-> "", v |-> <<NumVal(s), 1, 1>>]
    ELSE [exc |-> "ValueError", v |-> <<>>]

\* date1 > date2 on date objects
DateAfter(a, b) ==
    \/ a[1] > b[1]
    \/ a[1] = b[1] /\ a[2] > b[2]
    \/ a[1] = b[1] /\ a[2] = b[2] /\ a[3] > b[3]

\* ------------------------------------------------- metadata field extraction

\* record.metadata.get(key, [])
MetaGet(record, key) ==
    IF key \in DOMAIN record.metadata THEN record.metadata[key] ELSE <<>>

\* Variant: the field is read as values[0], no None filter and no join
ExtractFieldFirst(record, key, default) ==
    LET values == MetaGet(record, key)
    IN  IF Len(values) > 0 THEN values[1] ELSE default

\* DaystarOAIHarvester._extract_field (sickle metadata values are lists)
_extract_field(record, key, default) ==
    LET values == MetaGet(record, key)
        clean_values == Clean(values)
    IN  IF Len(values) > 0
        THEN IF Len(clean_values) = 0 THEN default
             ELSE IF Len(clean_values) = 1 THEN clean_values[1]
             ELSE Join(clean_values)
        ELSE default

NoTitle ==
    <<"N","o"," ","T","i","t","l","e"," ","P","r","o","v","i","d","e","d">>
NoDescription ==
    <<"N","o"," ","D","e","s","c","r","i","p","t","i","o","n"," ","P","r","o","v","i","d","e","d">>
Anonymous == <<"A","n","o","n","y","m","o","u","s">>
Http == <<"h","t","t","p">>

\* Variant: no except clause value, a failed parse falls back to date.min
ParseDateFallback(date_str) ==
    IF date_str = NoneVal \/ Len(date_str) = 0 THEN <<>>
    ELSE LET clean_date == Split(date_str, "T")[1]
             parsed == IF Len(clean_date) = 4 THEN StrptimeY(clean_date)
                       ELSE StrptimeYMD(clean_date)
         IN  IF parsed.exc = "" THEN parsed.v ELSE <<1, 1, 1>>

\* Variant: no len(clean_date) == 4 branch, every text goes to "%Y-%m-%d"
ParseDateNoYearBranch(date_str) ==
    IF date_str = NoneVal \/ Len(date_str) = 0 THEN <<>>
    ELSE LET clean_date == Split(date_str, "T")[1]
             parsed == StrptimeYMD(clean_date)
         IN  IF parsed.exc = "" THEN parsed.v ELSE <<>>

\* The date block of _parse_record_to_activity_data: <<>> is date None
ParseDate(date_str) ==
    IF date_str = NoneVal \/ Len(date_str) = 0 THEN <<>>
    ELSE LET clean_date == Split(date_str, "T")[1]
             parsed == IF Len(clean_date) = 4 THEN StrptimeY(clean_date)
                       ELSE StrptimeYMD(clean_date)
         IN  IF parsed.exc = "" THEN parsed.v ELSE <<>>

\* The identifier loop: for ident in identifiers: if ident.startswith("http").
\* None has no startswith: the loop raises AttributeError when it meets a None
\* entry before an entry that starts with "http".
RECURSIVE ScanIdentifiers(_)
ScanIdentifiers(identifiers) ==
    IF Len(identifiers) = 0 THEN [exc |-> "", v |-> NoneVal]
    ELSE IF identifiers[1] = NoneVal THEN [exc |-> "AttributeError", v |-> NoneVal]
    ELSE IF StartsWith(identifiers[1], Http) THEN [exc |-> "", v |-> identifiers[1]]
    ELSE ScanIdentifiers(Tail(identifiers))

\* Variant: the article/journal/publication rule tested before the thesis rule
InferTypeArticleFirst(types) ==
    LET type_str == IF Len(types) > 0 /\ types[1] # NoneVal
                    THEN Lower(types[1]) ELSE <<>>
    IN  IF \/ Contains(type_str, <<"a","r","t","i","c","l","e">>)
           \/ Contains(type_str, <<"j","o","u","r","n","a","l">>)
           \/ Contains(type_str, <<"p","u","b","l","i","c","a","t","i","o","n">>)
           \/ Contains(type_str, <<"r","e","p","o","r","t">>)
        THEN "Publication"
        ELSE IF \/ Contains(type_str, <<"t","h","e","s","i","s">>)
                \/ Contains(type_str, <<"d","i","s","s","e","r","t","a","t","i","o","n">>)
        THEN "Research"
        ELSE "Publication"

\* The activity type block: first type value, lower-cased, ordered rule list
InferType(types) ==
    LET type_str == IF Len(types) > 0 /\ types[1] # NoneVal
                    THEN Lower(types[1]) ELSE <<>>
    IN  IF \/ Contains(type_str, <<"t","h","e","s","i","s">>)
           \/ Contains(type_str, <<"d","i","s","s","e","r","t","a","t","i","o","n">>)
        THEN "Research"
        ELSE IF \/ Contains(type_str, <<"a","r","t","i","c","l","e">>)
                \/ Contains(type_str, <<"j","o","u","r","n","a","l">>)
                \/ Contains(type_str, <<"p","u","b","l","i","c","a","t","i","o","n">>)
        THEN "Publication"
        ELSE IF Contains(type_str, <<"r","e","p","o","r","t">>)
        THEN "Publication"
        ELSE "Publication"

NoData ==
    [title |-> <<>>, description |-> <<>>, authors |-> <<>>,
     original_publication_date |-> <<>>, external_url |-> NoneVal,
     activity_type |-> "", is_scraped |-> FALSE, lead_author |-> "None",
     ai_classified |-> FALSE]

\* The object None: it has none of the attributes read here
NoneObj == <<>>

\* hasattr(obj, name): an object is the record of its attributes
HasAttr(obj, name) == name \in DOMAIN obj

\* record.header.identifier, an AttributeError when the record has no
\* header, the header is None or the header has no identifier
HeaderIdentifier(record) ==
    IF HasAttr(record, "header") /\ HasAttr(record.header, "identifier")
    THEN [exc |-> "", v |-> record.header.identifier]
    ELSE [exc |-> "AttributeError", v |-> NoneVal]

\* DaystarOAIHarvester._parse_record_to_activity_data; exc names what it raises
_parse_record_to_activity_data(record, default_lead_author) ==
    LET scan == ScanIdentifiers(MetaGet(record, "identifier"))
    IN  IF scan.exc # "" THEN [exc |-> scan.exc, data |-> NoData]
        ELSE IF scan.v = NoneVal /\ HeaderIdentifier(record).exc # ""
        THEN [exc |-> HeaderIdentifier(record).exc, data |-> NoData]
        ELSE [exc |-> "",
              data |->
                [title |-> _extract_field(record, "title", NoTitle),
                 description |-> _extract_field(record, "description", NoDescription),
                 authors |-> _extract_field(record, "creator", Anonymous),
                 original_publication_date |->
                     ParseDate(_extract_field(record, "date", NoneVal)),
                 external_url |->
                     IF scan.v # NoneVal THEN scan.v ELSE HeaderIdentifier(record).v,
                 activity_type |-> InferType(MetaGet(record, "type")),
                 is_scraped |-> TRUE,
                 lead_author |-> default_lead_author,
                 ai_classified |-> FALSE]]

\* ------------------------------------------------------------ remote records

oai_1 == <<"o","a","i",":","1">>
oai_2 == <<"o","a","i",":","2">>
oai_3 == <<"o","a","i",":","3">>
oai_4 == <<"o","a","i",":","4">>
url_1 == <<"h","t","t","p",":","1">>
url_2 == <<"h","t","t","p",":","2">>
url_3 == <<"h","t","t","p",":","3">>

\* A thesis with three identifiers, two creators and a timestamped date
RecA ==
    [header |-> [identifier |-> oai_1],
     metadata |->
        [identifier |-> <<oai_1, url_1, url_2>>,
         title |-> << <<"T","1">> >>,
         creator |-> << <<"A">>, <<"B">> >>,
         type |-> << <<"M","S","c"," ","T","h","e","s","i","s">> >>,
         date |-> << <<"2","0","2","0","-","0","1","-","0","5","T","1","0">> >>]]

\* Another remote item that links to the same URL, with other field values
RecB ==
    [header |-> [identifier |-> oai_2],
     metadata |->
        [identifier |-> << <<"h","t">>, url_1 >>,
         title |-> << <<"T","2">> >>,
         description |-> << <<"d","2">> >>,
         type |-> << <<"J","o","u","r","n","a","l">> >>,
         date |-> << <<"2","0","2","1">> >>]]

\* An empty <dc:identifier/> element (None) before the URL
RecC ==
    [header |-> [identifier |-> oai_3],
     metadata |->
        [identifier |-> <<NoneVal, url_3>>,
         title |-> << <<"T","3">> >>]]

\* No identifier element at all, empty title and type, an unparseable date
RecD ==
    [header |-> [identifier |-> oai_4],
     metadata |->
        [title |-> <<NoneVal>>,
         type |-> <<NoneVal>>,
         date |-> << <<"b","a","d">> >>]]

\* The records the remote repository can list
Catalogue == <<RecA, RecB, RecC, RecD>>

\* ------------------------------------------------------------ Activity table

\* Activity.objects.filter(external_url=url): the ids (row positions) matching
Matching(st, url) == {i \in 1..Len(st) : st[i].external_url = url}

\* Activity.objects.create(**params): model defaults for the other columns
NewActivity(params) ==
    [title |-> params.title, description |-> params.description,
     authors |-> params.authors,
     original_publication_date |-> params.original_publication_date,
     external_url |-> params.external_url,
     activity_type |-> params.activity_type,
     is_scraped |-> params.is_scraped, lead_author |-> params.lead_author,
     ai_classified |-> params.ai_classified,
     status |-> "Active", author |-> "None",
     sdgs |-> {}, impact_summary |-> NoneVal]

\* Variant: a merge, the columns of an Activity made by hand are kept
SetDefaultsMerge(row, defaults) ==
    [f \in DOMAIN row |->
        IF f \in DOMAIN defaults /\ row.is_scraped THEN defaults[f]
        ELSE IF f = "is_scraped" THEN TRUE ELSE row[f]]

\* Variant: ai_classified is written on creation only, an update keeps it
SetDefaultsKeepClassified(row, defaults) ==
    [f \in DOMAIN row |->
        IF f \in DOMAIN defaults /\ f # "ai_classified" THEN defaults[f] ELSE row[f]]

\* setattr(obj, k, v) for k, v in defaults.items(), then obj.save()
SetDefaults(row, defaults) ==
    [f \in DOMAIN row |-> IF f \in DOMAIN defaults THEN defaults[f] ELSE row[f]]

\* Variant: a lookup that never finds the row
QueryGetBlind(st, url) == [exc |-> "", id |-> 0]

\* Variant: filter(external_url=url).first(), the oldest of several matches
QueryGetFirst(st, url) ==
    LET m == Matching(st, url)
    IN  IF m = {} THEN [exc |-> "", id |-> 0]
        ELSE [exc |-> "", id |-> CHOOSE i \in m : \A j \in m : i <= j]

\* QuerySet.get(external_url=url) inside update_or_create: id 0 is DoesNotExist
QueryGet(st, url) ==
    LET m == Matching(st, url)
    IN  IF Cardinality(m) > 1 THEN [exc |-> "MultipleObjectsReturned", id |-> 0]
        ELSE IF m = {} THEN [exc |-> "", id |-> 0]
        ELSE [exc |-> "", id |-> CHOOSE i \in m : TRUE]

\* The write half of update_or_create: create when get found nothing, else
\* overwrite the found row with the defaults
CreateOrSave(st, id, defaults) ==
    IF id = 0 THEN Append(st, NewActivity(defaults))
    ELSE [st EXCEPT ![id] = SetDefaults(@, defaults)]

\* Variant: Activity.objects.create(**activity_data) in place of the upsert
create_only(st, url, defaults) ==
    [exc |-> "", store |-> Append(st, NewActivity(defaults)), created |-> TRUE]

\* Activity.objects.update_or_create(external_url=..., defaults=activity_data)
\* run without interference
update_or_create(st, url, defaults) ==
    LET got == QueryGet(st, url)
    IN  IF got.exc # "" THEN [exc |-> got.exc, store |-> st, created |-> FALSE]
        ELSE [exc |-> "", store |-> CreateOrSave(st, got.id, defaults),
              created |-> got.id = 0]

\* An Activity entered by hand through the API (ActivitySerializer.create)
ApiActivity(url) ==
    [title |-> <<"M">>, description |-> <<"m">>, authors |-> NoneVal,
     original_publication_date |-> <<>>, external_url |-> url,
     activity_type |-> "Project", is_scraped |-> FALSE, lead_author |-> "None",
     ai_classified |-> TRUE, status |-> "Completed", author |-> "r1",
     sdgs |-> {3}, impact_summary |-> <<"s">>]

\* The tables a process can start from: empty, one hand-made Activity that
\* links to url_1, and two of them (the column has no unique constraint)
InitStores ==
    { <<>>, <<ApiActivity(url_1)>>, <<ApiActivity(url_1), ApiActivity(url_1)>> }

\* ------------------------------------------------------------------- state

VARIABLES
    store,                  \* the Activity table: row i has primary key i
    default_lead_author,    \* DaystarOAIHarvester.default_lead_author
    run,                    \* run[p]: the harvest_records call of process p
    prev,                   \* the run that returned before a repeated run
    cmd,                    \* the harvest_daystar_repository command
    ex,                     \* one extraction applied to one drawn record
    call,                   \* one classification call and the model's response
    sdg_impacts,            \* the SDGImpact table: row i has primary key i
    classified,             \* history: per Activity id, the impacts of its
                            \* latest _classify_activity that went through
    _classifier,            \* the module global of services.classifier
    thread,                 \* thread[t]: the get_classifier call of thread t
    instances               \* history: the SDGClassifier objects constructed
                            \* and those handed to callers

vars ==
    <<store, default_lead_author, run, prev, cmd, ex, call, sdg_impacts, classified,
      _classifier, thread, instances>>

Procs == {1, 2}

\* Most threads of the process inside get_classifier at once
MaxThreads == 2

Threads == 1..MaxThreads

\* _classifier = None
NoClassifier == [id |-> 0, api_key |-> "None"]

\* A thread outside get_classifier
IdleThread == [pc |-> "idle", api_key |-> "None", made |-> NoClassifier]

NoInstances == [constructed |-> 0, received |-> {}]

\* Most records one listing yields
MaxLen == 3

\* limit=None
NoLimit == -1

\* The limit arguments tried: None, 0 (which the loop's test reads as no
\* limit), 1 and 2
Limits == {NoLimit, 0, 1, 2}

Streams == UNION {[1..n -> 1..Len(Catalogue)] : n \in 0..MaxLen}

NoResult ==
    [total_processed |-> -1, new_activities |-> -1, updated_activities |-> -1]

\* No harvest_records call in progress
IdleRun ==
    [pc |-> "idle", stream |-> <<>>, cursor |-> 0, limit |-> NoLimit,
     count |-> 0, new_count |-> 0, updated_count |-> 0,
     record |-> 0, activity_data |-> NoData, found |-> 0,
     result |-> NoResult, exc |-> "", rec_id |-> NoneVal,
     \* history, read by no action:
     attempted |-> <<>>, upserted |-> <<>>, errors |-> 0, fatal |-> FALSE,
     store0 |-> <<>>]

NoPrev == [valid |-> FALSE, result |-> NoResult, store |-> <<>>]

NoCmd == [pc |-> "idle"]

NoEx == [pc |-> "idle"]

NoCall == [pc |-> "idle"]

\* if limit and count >= limit
LimitReached(limit, count) == limit # NoLimit /\ limit # 0 /\ count >= limit

\* records = self.harvester.ListRecords(**kwargs); count = new_count = updated_count = 0
Listing(stream, limit) ==
    [IdleRun EXCEPT !.pc = "loop", !.stream = stream, !.limit = limit]

\* Variant: the whole call inside transaction.atomic(), undone when it raises
TableRolledBack(st, st0) == st0

\* What the table holds once the outer except clause has re-raised: the loop
\* runs in no transaction, every update_or_create has committed on its own
TableAfterRaise(st, st0) == st

\* Variant: the outer except clause swallows the error and the totals are returned
ReturnsPartial(r, e) ==
    [r EXCEPT !.pc = "returned", !.record = 0,
              !.result = [total_processed |-> r.count,
                          new_activities |-> r.new_count,
                          updated_activities |-> r.updated_count]]

\* except Exception as e: print(...); raise e
Propagate(r, e) ==
    [r EXCEPT !.pc = "raised", !.exc = e, !.record = 0]

\* The loop is over: print the totals and return the dictionary
ReturnResult(r) ==
    [r EXCEPT !.pc = "returned", !.record = 0,
              !.result = [total_processed |-> r.count,
                          new_activities |-> r.new_count,
                          updated_activities |-> r.updated_count]]

\* Variant: count += 1 inside the created branch only
CountedNewOnly(r, created) ==
    [r EXCEPT !.new_count = IF created THEN @ + 1 ELSE @,
              !.updated_count = IF created THEN @ ELSE @ + 1,
              !.count = IF created THEN @ + 1 ELSE @,
              !.pc = "loop", !.record = 0, !.activity_data = NoData, !.found = 0]

\* if created: new_count += 1 else: updated_count += 1; count += 1
Counted(r, created) ==
    [r EXCEPT !.new_count = IF created THEN @ + 1 ELSE @,
              !.updated_count = IF created THEN @ ELSE @ + 1,
              !.count = @ + 1,
              !.pc = "loop", !.record = 0, !.activity_data = NoData, !.found = 0]

\* Variant: no inner try, a record's exception reaches the outer except clause
RecordErrorAborts(r) ==
    [r EXCEPT !.pc = "raised", !.exc = "record", !.record = 0]

\* Variant: count += 1 in a finally clause, so failed records are counted too
RecordErrorCounts(r) ==
    [r EXCEPT !.count = @ + 1,
              !.pc = "loop", !.record = 0, !.activity_data = NoData, !.found = 0]

\* except Exception as e: rec_id = ...; print(...), then the next iteration
RecordError(r) ==
    [r EXCEPT !.pc = "loop", !.record = 0, !.activity_data = NoData, !.found = 0]

Init ==
    /\ store \in InitStores
    /\ default_lead_author = "admin"
    /\ run = [p \in Procs |-> IdleRun]
    /\ prev = NoPrev
    /\ cmd = NoCmd
    /\ call = NoCall
    /\ sdg_impacts = <<>>
    /\ classified = {}
    /\ _classifier = NoClassifier
    /\ thread = [t \in Threads |-> IdleThread]
    /\ instances = NoInstances
    /\ ex = NoEx

\* --------------------------------------------------- harvest_records, steps

\* harvest_records(limit=limit) is called and opens the listing, which yields
\* `stream`; or ListRecords raises (the first page is fetched on opening)
harvest_records(p, stream, limit) ==
    /\ run[p].pc = "idle"
    /\ \/ run' = [run EXCEPT ![p] = [Listing(stream, limit) EXCEPT !.store0 = store]]
       \/ run' = [run EXCEPT ![p] =
                     [Propagate(Listing(stream, limit), "ListRecords") EXCEPT
                         !.fatal = TRUE, !.store0 = store]]
    /\ UNCHANGED <<store, default_lead_author, prev, cmd, ex, call, sdg_impacts, classified,
                 _classifier, thread, instances>>

\* The caller has the returned dictionary or the exception: the call is over
CallOver(p) ==
    /\ run[p].pc \in {"returned", "raised"}
    /\ run' = [run EXCEPT ![p] = IdleRun]
    /\ prev' = NoPrev
    /\ UNCHANGED <<store, default_lead_author, cmd, ex, call, sdg_impacts, classified,
                 _classifier, thread, instances>>

\* harvest_records is called again with the same arguments after it returned,
\* the remote repository unchanged in between
HarvestAgain(p) ==
    /\ run[p].pc = "returned"
    /\ ~prev.valid
    /\ prev' = [valid |-> TRUE, result |-> run[p].result, store |-> store]
    /\ run' = [run EXCEPT ![p] =
                  [Listing(run[p].stream, run[p].limit) EXCEPT !.store0 = store]]
    /\ UNCHANGED <<store, default_lead_author, cmd, ex, call, sdg_impacts, classified,
                 _classifier, thread, instances>>

\* for record in records: the iterator raises (a page request fails)
NextRaises(p) ==
    /\ run[p].pc = "loop"
    /\ run' = [run EXCEPT ![p] = [Propagate(@, "next") EXCEPT !.fatal = TRUE]]
    /\ store' = TableAfterRaise(store, run[p].store0)
    /\ UNCHANGED <<default_lead_author, prev, cmd, ex, call, sdg_impacts, classified,
                 _classifier, thread, instances>>

\* for record in records: the iterator is exhausted
StopIteration(p) ==
    /\ run[p].pc = "loop"
    /\ run[p].cursor = Len(run[p].stream)
    /\ run' = [run EXCEPT ![p] = ReturnResult(@)]
    /\ UNCHANGED <<store, default_lead_author, prev, cmd, ex, call, sdg_impacts, classified,
                 _classifier, thread, instances>>

\* The iterator yields a record and the limit test breaks out of the loop
LimitBreak(p) ==
    /\ run[p].pc = "loop"
    /\ run[p].cursor < Len(run[p].stream)
    /\ LimitReached(run[p].limit, run[p].count)
    /\ run' = [run EXCEPT ![p] = ReturnResult([@ EXCEPT !.cursor = @ + 1])]
    /\ UNCHANGED <<store, default_lead_author, prev, cmd, ex, call, sdg_impacts, classified,
                 _classifier, thread, instances>>

\* One iteration of the loop body, the upsert undisturbed by other processes:
\* extract, update_or_create, count; or the except clause
ProcessRecord(p) ==
    /\ run[p].pc = "loop"
    /\ run[p].cursor < Len(run[p].stream)
    /\ ~LimitReached(run[p].limit, run[p].count)
    /\ LET r == [run[p] EXCEPT !.cursor = @ + 1,
                               !.attempted = Append(@, run[p].stream[run[p].cursor + 1])]
           parsed == _parse_record_to_activity_data(
                         Catalogue[run[p].stream[run[p].cursor + 1]],
                         default_lead_author)
           done == update_or_create(store, parsed.data.external_url, parsed.data)
       IN  IF parsed.exc # "" \/ done.exc # ""
           THEN /\ run' = [run EXCEPT ![p] = [RecordError(r) EXCEPT !.errors = @ + 1]]
                /\ store' = store
           ELSE /\ run' = [run EXCEPT ![p] =
                              [Counted(r, done.created) EXCEPT
                                  !.upserted = Append(@, parsed.data)]]
                /\ store' = done.store
    /\ UNCHANGED <<default_lead_author, prev, cmd, ex, call, sdg_impacts, classified,
                 _classifier, thread, instances>>

\* Sequential harvesting: one process, one run at a time
Next ==
    \/ \E stream \in Streams, limit \in Limits : harvest_records(1, stream, limit)
    \/ CallOver(1)
    \/ HarvestAgain(1)
    \/ NextRaises(1)
    \/ StopIteration(1)
    \/ LimitBreak(1)
    \/ ProcessRecord(1)

Spec == Init /\ [][Next]_vars

\* ------------------------------------------------------ sequential harvests

\* The columns harvest_records writes
Harvested(row) == [f \in DOMAIN NoData |-> row[f]]

NoDuplicates(st) ==
    \A i, j \in 1..Len(st) : i # j => st[i].external_url # st[j].external_url

\* limit is set, as the loop's test reads it
LimitSet(limit) == limit # NoLimit /\ limit # 0

\* C1: while harvest runs follow one another, a table in which no two
\* Activities share an external_url stays such a table at every step, whatever
\* the streams repeat or alias.
C1_OneActivityPerUrl == [][NoDuplicates(store) => NoDuplicates(store')]_vars

\* A run that upserted two different remote records deriving the same
\* external_url has returned and the table holds that URL once
C1_Witness ==
    /\ run[1].pc = "returned"
    /\ NoDuplicates(store)
    /\ \E i, j \in 1..Len(run[1].upserted) :
          /\ i < j
          /\ run[1].upserted[i].external_url = run[1].upserted[j].external_url
          /\ run[1].upserted[i].title # run[1].upserted[j].title
          /\ Cardinality(Matching(store, run[1].upserted[i].external_url)) = 1

\* C2: a second run over the same remote records reports no new Activity,
\* reports every record it processed as updated, and leaves the number of
\* Activities and every harvested column as the first run left them.
C2_SecondRunOnlyUpdates ==
    (prev.valid /\ run[1].pc = "returned") =>
        /\ run[1].result.new_activities = 0
        /\ run[1].result.updated_activities = Len(run[1].upserted)
        /\ run[1].result.updated_activities = run[1].result.total_processed
        /\ run[1].result.total_processed = prev.result.total_processed
        /\ Len(store) = Len(prev.store)
        /\ \A i \in 1..Len(store) : Harvested(store[i]) = Harvested(prev.store[i])

\* The first run created Activities and the second run has updated two records
C2_Witness ==
    /\ prev.valid
    /\ run[1].pc = "returned"
    /\ prev.result.new_activities >= 1
    /\ run[1].result.updated_activities >= 2

\* C4: a record whose extraction or upsert raises does not end the run: every
\* record the iterator has yielded was attempted, each attempt either
\* succeeded or was handled, the call raises only when the listing failed, and
\* without a limit it returns its dictionary having attempted the whole stream.
C4_RecordErrorsDoNotAbort ==
    \A p \in Procs :
        LET r == run[p]
        IN  /\ r.pc = "raised" => r.fatal
            /\ r.pc = "loop" => Len(r.attempted) = r.cursor
            /\ r.pc \in {"loop", "returned", "raised"} =>
                   Len(r.upserted) + r.errors = Len(r.attempted)
            /\ (r.pc = "returned" /\ ~LimitSet(r.limit)) =>
                   /\ Len(r.attempted) = Len(r.stream)
                   /\ r.result # NoResult

\* A run has returned after RecC failed extraction, RecA failed the upsert
\* (two Activities hold its URL) and the record after them was upserted
C4_Witness ==
    /\ run[1].pc = "returned"
    /\ run[1].stream = <<3, 1, 4>>
    /\ run[1].errors = 2
    /\ Len(run[1].upserted) = 1
    /\ run[1].result.total_processed = 1

\* C5: a record that raises changes no counter and leaves the table as it
\* was, and the returned total_processed is the number of records whose
\* extraction and upsert both succeeded.
C5_FailuresCountNothing ==
    /\ [](\A p \in Procs :
            /\ run[p].count = Len(run[p].upserted)
            /\ run[p].pc = "returned" =>
                   run[p].result.total_processed = Len(run[p].upserted))
    /\ [][\A p \in Procs :
            run'[p].errors > run[p].errors =>
                /\ store' = store
                /\ run'[p].count = run[p].count
                /\ run'[p].new_count = run[p].new_count
                /\ run'[p].updated_count = run[p].updated_count]_vars

\* Two valid records and one failing record: total_processed = 2
C5_Witness ==
    /\ run[1].pc = "returned"
    /\ Len(run[1].attempted) = 3
    /\ run[1].errors = 1
    /\ run[1].result.total_processed = 2

\* C6: with a limit set, extraction is attempted on at most limit records.
C6_AttemptsWithinLimit ==
    \A p \in Procs : LimitSet(run[p].limit) => Len(run[p].attempted) <= run[p].limit

\* C7: once opening the listing or advancing the iterator has raised, the call
\* has raised and there is no result dictionary, whatever was processed before.
C7_ListingFailurePropagates ==
    \A p \in Procs :
        run[p].fatal => /\ run[p].pc = "raised"
                        /\ run[p].result = NoResult
                        /\ run[p].exc \in {"ListRecords", "next"}

\* The iterator raised after two records had been upserted
C7_Witness ==
    /\ run[1].pc = "raised"
    /\ run[1].exc = "next"
    /\ Len(run[1].upserted) = 2

\* C8: when the iterator raises after records were upserted, each upserted
\* external_url is still in the table with the values last written for it.
C8_NoRollback ==
    \A p \in Procs :
        run[p].pc = "raised" =>
            \A i \in 1..Len(run[p].upserted) :
                LET d == run[p].upserted[i]
                IN  (\A j \in (i + 1)..Len(run[p].upserted) :
                        run[p].upserted[j].external_url # d.external_url)
                    => \E k \in Matching(store, d.external_url) :
                          Harvested(store[k]) = d

\* The iterator raised after the run updated the hand-made Activity and
\* created another one
C8_Witness ==
    /\ run[1].pc = "raised"
    /\ run[1].exc = "next"
    /\ Len(run[1].upserted) = 2
    /\ run[1].store0 = <<ApiActivity(url_1)>>
    /\ Len(store) = 2
    /\ store[1].is_scraped /\ store[1].status = "Completed"

\* ------------------------------------------------------ concurrent harvests

\* Most records one listing yields when two runs interleave
MaxConcLen == 2

ConcStreams == UNION {[1..n -> 1..Len(Catalogue)] : n \in 0..MaxConcLen}

\* The first half of a loop iteration: the iterator yields a record and
\* _parse_record_to_activity_data is applied to it
Extract(p) ==
    /\ run[p].pc = "loop"
    /\ run[p].cursor < Len(run[p].stream)
    /\ ~LimitReached(run[p].limit, run[p].count)
    /\ LET r == [run[p] EXCEPT !.cursor = @ + 1,
                               !.attempted = Append(@, run[p].stream[run[p].cursor + 1])]
           parsed == _parse_record_to_activity_data(
                         Catalogue[run[p].stream[run[p].cursor + 1]],
                         default_lead_author)
       IN  IF parsed.exc # ""
           THEN run' = [run EXCEPT ![p] = [RecordError(r) EXCEPT !.errors = @ + 1]]
           ELSE run' = [run EXCEPT ![p] =
                           [r EXCEPT !.pc = "get",
                                     !.record = run[p].stream[run[p].cursor + 1],
                                     !.activity_data = parsed.data]]
    /\ UNCHANGED <<store, default_lead_author, prev, cmd, ex, call, sdg_impacts, classified,
                 _classifier, thread, instances>>

\* update_or_create, first statement: SELECT the row by external_url
Get(p) ==
    /\ run[p].pc = "get"
    /\ LET got == QueryGet(store, run[p].activity_data.external_url)
       IN  IF got.exc # ""
           THEN run' = [run EXCEPT ![p] = [RecordError(@) EXCEPT !.errors = @ + 1]]
           ELSE run' = [run EXCEPT ![p] = [@ EXCEPT !.pc = "save", !.found = got.id]]
    /\ UNCHANGED <<store, default_lead_author, prev, cmd, ex, call, sdg_impacts, classified,
                 _classifier, thread, instances>>

\* update_or_create, second statement: INSERT when the SELECT found no row,
\* UPDATE of the found row otherwise; then the counters
Save(p) ==
    /\ run[p].pc = "save"
    /\ store' = CreateOrSave(store, run[p].found, run[p].activity_data)
    /\ run' = [run EXCEPT ![p] =
                  [Counted(@, run[p].found = 0) EXCEPT
                      !.upserted = Append(@, run[p].activity_data)]]
    /\ UNCHANGED <<default_lead_author, prev, cmd, ex, call, sdg_impacts, classified,
                 _classifier, thread, instances>>

ConcNext ==
    \E p \in Procs :
        \/ \E stream \in ConcStreams, limit \in {NoLimit, 1} :
               harvest_records(p, stream, limit)
        \/ NextRaises(p)
        \/ StopIteration(p)
        \/ LimitBreak(p)
        \/ Extract(p)
        \/ Get(p)
        \/ Save(p)

\* Two harvest processes against one table, their statements interleaved
SpecConc == Init /\ [][ConcNext]_vars

\* The external_url values the run has upserted
UpsertedUrls(r) == {r.upserted[i].external_url : i \in 1..Len(r.upserted)}

\* C3: when two runs that both started before the table held an external_url
\* have both upserted it, the table holds exactly one Activity for it.
C3_RaceLeavesOneActivity ==
    (run[1].pc = "returned" /\ run[2].pc = "returned") =>
        \A u \in UpsertedUrls(run[1]) \cap UpsertedUrls(run[2]) :
            (Matching(run[1].store0, u) = {} /\ Matching(run[2].store0, u) = {})
                => Cardinality(Matching(store, u)) = 1

\* ------------------------------------- harvest_daystar_repository command

d_0105 == <<"2","0","2","0","-","0","1","-","0","5">>
d_0106 == <<"2","0","2","0","-","0","1","-","0","6">>

\* Values of --from and --until: option absent (None), the empty string, two
\* dates, a date without zero padding, a day the month lacks, a month 13, text
DateArgs ==
    { NoneVal, <<>>, d_0105, d_0106,
      <<"2","0","2","0","-","1","-","5">>,
      <<"2","0","2","0","-","0","2","-","3","0">>,
      <<"2","0","2","0","-","1","3","-","0","1">>,
      <<"0","5","/","0","1","/","2","0","2","0">> }

\* if from_date_str: (None and "" are false)
Truthy(s) == s # NoneVal /\ Len(s) > 0

\* Variant: from_date >= until_date refused, so equal dates are an error
ParseOptionsNoEqual(from_date_str, until_date_str) ==
    LET f == IF Truthy(from_date_str) THEN StrptimeYMD(from_date_str)
             ELSE [exc |-> "", v |-> <<>>]
        u == IF Truthy(until_date_str) THEN StrptimeYMD(until_date_str)
             ELSE [exc |-> "", v |-> <<>>]
    IN  IF f.exc # "" THEN [error |-> "Invalid --from date format", from_date |-> <<>>,
                            until_date |-> <<>>]
        ELSE IF u.exc # "" THEN [error |-> "Invalid --until date format",
                                 from_date |-> <<>>, until_date |-> <<>>]
        ELSE IF f.v # <<>> /\ u.v # <<>> /\ ~DateAfter(u.v, f.v)
        THEN [error |-> "--from date cannot be after --until date",
              from_date |-> <<>>, until_date |-> <<>>]
        ELSE [error |-> "", from_date |-> f.v, until_date |-> u.v]

\* Lines 30-46 of Command.handle: the dates parsed, or the CommandError raised
ParseOptions(from_date_str, until_date_str) ==
    LET f == IF Truthy(from_date_str) THEN StrptimeYMD(from_date_str)
             ELSE [exc |-> "", v |-> <<>>]
        u == IF Truthy(until_date_str) THEN StrptimeYMD(until_date_str)
             ELSE [exc |-> "", v |-> <<>>]
    IN  IF f.exc # "" THEN [error |-> "Invalid --from date format", from_date |-> <<>>,
                            until_date |-> <<>>]
        ELSE IF u.exc # "" THEN [error |-> "Invalid --until date format",
                                 from_date |-> <<>>, until_date |-> <<>>]
        ELSE IF f.v # <<>> /\ u.v # <<>> /\ DateAfter(f.v, u.v)
        THEN [error |-> "--from date cannot be after --until date",
              from_date |-> <<>>, until_date |-> <<>>]
        ELSE [error |-> "", from_date |-> f.v, until_date |-> u.v]

\* Command.handle up to the harvest_records call: CommandError on bad options,
\* else harvest_records(start_date, end_date) is called (no limit) and opens
\* the listing or fails to
handle(from_date_str, until_date_str) ==
    /\ cmd.pc = "idle"
    /\ run[1].pc = "idle"
    /\ LET opts == ParseOptions(from_date_str, until_date_str)
       IN  IF opts.error # ""
           THEN /\ cmd' = [pc |-> "CommandError", from_date_str |-> from_date_str,
                           until_date_str |-> until_date_str,
                           error |-> opts.error, calls |-> 0]
                /\ run' = run
           ELSE /\ cmd' = [pc |-> "harvesting", from_date_str |-> from_date_str,
                           until_date_str |-> until_date_str,
                           error |-> "", calls |-> 1]
                /\ \E stream \in Streams :
                      \/ run' = [run EXCEPT ![1] =
                                    [Listing(stream, NoLimit) EXCEPT !.store0 = store]]
                      \/ run' = [run EXCEPT ![1] =
                                    [Propagate(Listing(stream, NoLimit), "ListRecords")
                                        EXCEPT !.fatal = TRUE, !.store0 = store]]
    /\ UNCHANGED <<store, default_lead_author, prev, ex, call, sdg_impacts, classified,
                 _classifier, thread, instances>>

\* Lines 55-60: the totals are written, or CommandError('OAI Harvest failed')
HandleEnds ==
    /\ cmd.pc = "harvesting"
    /\ run[1].pc \in {"returned", "raised"}
    /\ cmd' = [cmd EXCEPT !.pc = IF run[1].pc = "returned" THEN "done"
                                 ELSE "CommandError",
                          !.error = IF run[1].pc = "returned" THEN ""
                                    ELSE "OAI Harvest failed"]
    /\ UNCHANGED <<store, default_lead_author, run, prev, ex, call, sdg_impacts, classified,
                 _classifier, thread, instances>>

CmdNext ==
    \/ \E f \in DateArgs, u \in DateArgs : handle(f, u)
    \/ HandleEnds
    \/ NextRaises(1)
    \/ StopIteration(1)
    \/ ProcessRecord(1)

\* One invocation of manage.py harvest_daystar_repository
SpecCmd == Init /\ [][CmdNext]_vars

\* A calendar date written YYYY-MM-DD
IsDateText(s) ==
    /\ Len(s) = 10
    /\ s[5] = "-" /\ s[8] = "-"
    /\ \A i \in {1, 2, 3, 4, 6, 7, 9, 10} : s[i] \in Digits
    /\ NumVal(SubSeq(s, 1, 4)) >= 1
    /\ NumVal(SubSeq(s, 6, 7)) \in 1..12
    /\ NumVal(SubSeq(s, 9, 10)) >= 1
    /\ NumVal(SubSeq(s, 9, 10)) <=
           DaysIn(NumVal(SubSeq(s, 1, 4)), NumVal(SubSeq(s, 6, 7)))

\* YYYY-MM-DD texts order as their dates do
TextAfter(a, b) ==
    \E i \in 1..10 : /\ SubSeq(a, 1, i - 1) = SubSeq(b, 1, i - 1)
                     /\ a[i] \in Digits /\ b[i] \in Digits
                     /\ DigitVal(a[i]) > DigitVal(b[i])

\* The options the command must refuse: a value that is no YYYY-MM-DD date, or
\* two dates with from after until
BadOptions(f, u) ==
    \/ f # NoneVal /\ ~IsDateText(f)
    \/ u # NoneVal /\ ~IsDateText(u)
    \/ f # NoneVal /\ u # NoneVal /\ IsDateText(f) /\ IsDateText(u) /\ TextAfter(f, u)

Rejected(s) == Truthy(s) /\ StrptimeYMD(s).exc # ""

MaxIds == 3

\* Entries of a dc:identifier list: None, two URLs, an OAI id, a short text,
\* the empty string
IdentEntries == { NoneVal, url_1, url_2, oai_1, <<"h","t">>, <<>> }

IdentLists == UNION {[1..n -> IdentEntries] : n \in 0..MaxIds}

\* The drawn records: RecD (no identifier key) and records with each list
ExtractInputs ==
    {RecD} \cup
    { [header |-> [identifier |-> oai_2],
       metadata |-> [identifier |-> ids, title |-> << <<"T","2">> >>]] :
      ids \in IdentLists }

ExtractInit ==
    /\ store = <<>>
    /\ default_lead_author \in {"None", "admin"}
    /\ run = [p \in Procs |-> IdleRun]
    /\ prev = NoPrev
    /\ cmd = NoCmd
    /\ call = NoCall
    /\ sdg_impacts = <<>>
    /\ classified = {}
    /\ _classifier = NoClassifier
    /\ thread = [t \in Threads |-> IdleThread]
    /\ instances = NoInstances
    /\ ex \in {[pc |-> "drawn", record |-> rec, out |-> [exc |-> "", data |-> NoData]] :
               rec \in ExtractInputs}

\* _parse_record_to_activity_data applied to the drawn record
ExtractRecord ==
    /\ ex.pc = "drawn"
    /\ ex' = [ex EXCEPT !.pc = "done",
                        !.out = _parse_record_to_activity_data(ex.record,
                                                               default_lead_author)]
    /\ UNCHANGED <<store, default_lead_author, run, prev, cmd, call, sdg_impacts, classified,
                 _classifier, thread, instances>>

SpecExtract == ExtractInit /\ [][ExtractRecord]_vars

\* The first entry, in list order, that is a string starting with "http"; the
\* header identifier when there is none
FirstHttpOr(ids, header_identifier) ==
    LET hits == {i \in 1..Len(ids) : ids[i] # NoneVal /\ StartsWith(ids[i], Http)}
    IN  IF hits = {} THEN header_identifier
        ELSE ids[CHOOSE i \in hits : \A j \in hits : i <= j]

\* C10: for every identifier list of strings and nulls, extraction yields as
\* external_url the first entry that starts with "http", and the header
\* identifier when no entry does.
C10_FirstHttpIdentifier ==
    ex.pc = "done" =>
        /\ ex.out.exc = ""
        /\ ex.out.data.external_url =
               FirstHttpOr(MetaGet(ex.record, "identifier"),
                           ex.record.header.identifier)

\* ------------------------------------------- multi-valued metadata fields

\* Longest value list drawn for one metadata key
MaxVals == 3

\* Values of dc:title, dc:description, dc:creator: None, two texts, the empty
\* string
TextEntries == { NoneVal, <<"a">>, <<"b">>, <<>> }

d_ymd == <<"2","0","2","0","-","0","1","-","0","5">>
d_stamp == <<"2","0","2","0","-","0","1","-","0","5","T","1","0">>
d_year == <<"2","0","2","1">>
d_yearT == <<"2","0","2","0","T">>
d_word == <<"a","b","c","d">>
d_zero == <<"0","0","0","0">>
d_feb30 == <<"2","0","2","0","-","0","2","-","3","0">>

\* Values of dc:date: None, a day, a timestamp, a bare year with and without
\* a time suffix, four letters, the year 0000, a day that does not exist,
\* the empty string
DateEntries ==
    { NoneVal, d_ymd, d_stamp, d_year, d_yearT, d_word, d_zero, d_feb30, <<>> }

t_thesis == <<"M","S","c"," ","T","h","e","s","i","s">>
t_both == <<"t","h","e","s","i","s"," ","a","r","t","i","c","l","e">>
t_dissrep == <<"D","i","s","s","e","r","t","a","t","i","o","n"," ","R","e","p","o","r","t">>
t_journal == <<"J","o","u","r","n","a","l">>
t_report == <<"r","e","p","o","r","t">>
t_book == <<"B","o","o","k">>

\* Values of dc:type: None, the empty string, texts that match one rule and
\* texts that match two
TypeEntries ==
    { NoneVal, <<>>, t_thesis, t_both, t_dissrep, t_journal, t_report, t_book }

ValueLists(entries) == UNION {[1..n -> entries] : n \in 0..MaxVals}

\* The drawn records: one metadata key each, carrying each value list; RecD
\* has none of the text keys
FieldInputs ==
    {RecD} \cup
    { [header |-> [identifier |-> oai_2], metadata |-> [k \in {key} |-> values]] :
      key \in {"title", "description", "creator"}, values \in ValueLists(TextEntries) }
    \cup
    { [header |-> [identifier |-> oai_2], metadata |-> [date |-> values]] :
      values \in ValueLists(DateEntries) }
    \cup
    { [header |-> [identifier |-> oai_2], metadata |-> [type |-> values]] :
      values \in ValueLists(TypeEntries) }

FieldsInit ==
    /\ store = <<>>
    /\ default_lead_author = "admin"
    /\ run = [p \in Procs |-> IdleRun]
    /\ prev = NoPrev
    /\ cmd = NoCmd
    /\ call = NoCall
    /\ sdg_impacts = <<>>
    /\ classified = {}
    /\ _classifier = NoClassifier
    /\ thread = [t \in Threads |-> IdleThread]
    /\ instances = NoInstances
    /\ ex \in {[pc |-> "drawn", record |-> rec, out |-> [exc |-> "", data |-> NoData]] :
               rec \in FieldInputs}

SpecFields == FieldsInit /\ [][ExtractRecord]_vars

\* The non-null entries of a value list, in order
Kept(values) == SelectSeq(values, LAMBDA v : v # NoneVal)

\* The first n values with "; " between neighbours
RECURSIVE JoinedUpTo(_, _)
JoinedUpTo(values, n) ==
    IF n = 1 THEN values[1]
    ELSE JoinedUpTo(values, n - 1) \o <<";", " ">> \o values[n]

\* Scalar collapse of a value list
Collapse(values, default) ==
    IF Len(Kept(values)) = 0 THEN default
    ELSE JoinedUpTo(Kept(values), Len(Kept(values)))

\* C11: every text field of an extracted record is the scalar collapse of its
\* value list: the default when the key is absent or no non-null value is
\* left, the one non-null value as it is, several joined in order with "; ".
C11_ScalarCollapse ==
    ex.pc = "done" =>
        /\ ex.out.exc = ""
        /\ ex.out.data.title = Collapse(MetaGet(ex.record, "title"), NoTitle)
        /\ ex.out.data.description =
               Collapse(MetaGet(ex.record, "description"), NoDescription)
        /\ ex.out.data.authors = Collapse(MetaGet(ex.record, "creator"), Anonymous)

\* A creator list with a null between two names was collapsed to "a; b"
C11_Witness ==
    /\ ex.pc = "done"
    /\ MetaGet(ex.record, "creator") = << <<"a">>, NoneVal, <<"b">> >>
    /\ ex.out.data.authors = <<"a", ";", " ", "b">>
    /\ ex.out.data.title = NoTitle

\* C12: a record with several date values gets the date parsed from its first
\* value; the values after it change nothing.
C12_FirstDateValueOnly ==
    LET dates == MetaGet(ex.record, "date")
    IN  (ex.pc = "done" /\ Len(dates) >= 2 /\ dates[1] # NoneVal) =>
            ex.out.data.original_publication_date = ParseDate(dates[1])

\* The text handed to the date block: the collapsed dc:date values
DateText(record) == Collapse(MetaGet(record, "date"), NoneVal)

\* The text before the first "T"
BeforeT(s) ==
    LET at == {i \in 1..Len(s) : s[i] = "T"}
    IN  IF at = {} THEN s
        ELSE SubSeq(s, 1, (CHOOSE i \in at : \A j \in at : i <= j) - 1)

\* A date text that is four characters long once its time suffix is cut
FourChars(record) ==
    /\ DateText(record) # NoneVal
    /\ Len(BeforeT(DateText(record))) = 4

\* The number four digits spell
YearOf(s) ==
    1000 * DigitVal(s[1]) + 100 * DigitVal(s[2]) + 10 * DigitVal(s[3]) + DigitVal(s[4])

\* C14 as stated: every date text of four characters after T-stripping is
\* extracted without an exception into a date that is not None.
C14_FourCharsYieldYear ==
    (ex.pc = "done" /\ FourChars(ex.record)) =>
        /\ ex.out.exc = ""
        /\ ex.out.data.original_publication_date # <<>>

\* C14, amended: a date text of four characters after T-stripping is extracted
\* without an exception; four digits other than 0000 give the first of
\* January of that year, any other four characters give None.
C14_FourDigitsYieldYear ==
    (ex.pc = "done" /\ FourChars(ex.record)) =>
        LET clean == BeforeT(DateText(ex.record))
        IN  /\ ex.out.exc = ""
            /\ ex.out.data.original_publication_date =
                   IF (\A i \in 1..4 : clean[i] \in Digits) /\ YearOf(clean) > 0
                   THEN <<YearOf(clean), 1, 1>>
                   ELSE <<>>

\* The bare year 2020 with a time suffix was extracted as 2020-01-01
C14_Witness ==
    /\ ex.pc = "done"
    /\ MetaGet(ex.record, "date") = <<d_yearT>>
    /\ ex.out.data.original_publication_date = <<2020, 1, 1>>

\* s holds the word w, letter case aside
Mentions(s, w) ==
    \E i \in 1..Len(s) :
        /\ i + Len(w) - 1 <= Len(s)
        /\ \A k \in 1..Len(w) : LowerChar(s[i + k - 1]) = w[k]

\* C15: the activity type is 'Research' exactly when the first type value, in
\* lower case, contains "thesis" or "dissertation", whatever else it
\* contains; an empty list, a null first value and every other text give
\* 'Publication'; values after the first are not looked at.
C15_TypeRules ==
    ex.pc = "done" =>
        LET types == MetaGet(ex.record, "type")
            first == IF Len(types) = 0 \/ types[1] = NoneVal THEN <<>> ELSE types[1]
        IN  ex.out.data.activity_type =
                IF \/ Mentions(first, <<"t","h","e","s","i","s">>)
                   \/ Mentions(first, <<"d","i","s","s","e","r","t","a","t","i","o","n">>)
                THEN "Research"
                ELSE "Publication"

\* "thesis article" before "Journal" was typed 'Research'
C15_Witness ==
    /\ ex.pc = "done"
    /\ MetaGet(ex.record, "type") = <<t_both, t_journal>>
    /\ ex.out.data.activity_type = "Research"

\* ------------------------------------------------ dates that do not parse

\* The record's date text is there and strptime refuses what is left of it
\* once the time suffix is cut
Unparseable(record) ==
    /\ DateText(record) # NoneVal
    /\ Len(DateText(record)) > 0
    /\ LET clean == BeforeT(DateText(record))
       IN  IF Len(clean) = 4 THEN StrptimeY(clean).exc # ""
           ELSE StrptimeYMD(clean).exc # ""

\* Nothing but the date stands in the record's way: no null identifier, and
\* at most one Activity holds its URL
OtherwiseSound(record, st) ==
    LET ids == MetaGet(record, "identifier")
    IN  /\ \A i \in 1..Len(ids) : ids[i] # NoneVal
        /\ Cardinality(Matching(st, FirstHttpOr(ids, record.header.identifier))) <= 1

\* C13: when the loop processes a record whose date does not parse, nothing
\* is raised: the record is extracted with original_publication_date None,
\* upserted into the table and counted in total_processed.
C13_BadDateStillUpserted ==
    [][\A i \in 1..Len(Catalogue) :
          (/\ run[1].pc = "loop"
           /\ run'[1].attempted = Append(run[1].attempted, i)
           /\ Unparseable(Catalogue[i])
           /\ OtherwiseSound(Catalogue[i], store))
          => /\ run'[1].errors = run[1].errors
             /\ run'[1].pc = "loop"
             /\ run'[1].count = run[1].count + 1
             /\ Len(run'[1].upserted) = Len(run[1].upserted) + 1
             /\ LET d == run'[1].upserted[Len(run'[1].upserted)]
                IN  /\ d.original_publication_date = <<>>
                    /\ d.external_url =
                           FirstHttpOr(MetaGet(Catalogue[i], "identifier"),
                                       Catalogue[i].header.identifier)
                    /\ \E k \in Matching(store', d.external_url) :
                          Harvested(store'[k]) = d]_vars

\* A run over RecD alone (date "bad") has returned: one record processed, one
\* Activity created, its date None
C13_Witness ==
    /\ run[1].pc = "returned"
    /\ run[1].stream = <<4>>
    /\ run[1].result.total_processed = 1
    /\ run[1].result.new_activities = 1
    /\ \E k \in Matching(store, oai_4) : store[k].original_publication_date = <<>>

\* ------------------------------------------------- update or create, by row

\* C16: a record processed with success whose external_url one Activity
\* holds overwrites every harvested column of that Activity with the
\* extracted values, adds no row and adds one to updated_count; when no
\* Activity holds the URL, one row with the extracted values is added and
\* new_count grows by one. The other rows stay as they were.
C16_ReplaceOrCreate ==
    [][(/\ run[1].pc = "loop"
        /\ Len(run'[1].upserted) = Len(run[1].upserted) + 1)
       => LET d == run'[1].upserted[Len(run'[1].upserted)]
              m == Matching(store, d.external_url)
          IN  /\ Cardinality(m) <= 1
              /\ Cardinality(m) = 1 =>
                    /\ Len(store') = Len(store)
                    /\ \A k \in 1..Len(store) :
                          IF k \in m THEN Harvested(store'[k]) = d
                          ELSE store'[k] = store[k]
                    /\ run'[1].updated_count = run[1].updated_count + 1
                    /\ run'[1].new_count = run[1].new_count
              /\ m = {} =>
                    /\ Len(store') = Len(store) + 1
                    /\ SubSeq(store', 1, Len(store)) = store
                    /\ Harvested(store'[Len(store')]) = d
                    /\ run'[1].new_count = run[1].new_count + 1
                    /\ run'[1].updated_count = run[1].updated_count]_vars

\* A run over RecA and RecD has returned from a table with one hand-made
\* Activity for url_1: that row now carries RecA's values in place of its
\* own, and RecD was created next to it
C16_Witness ==
    /\ run[1].pc = "returned"
    /\ run[1].stream = <<1, 4>>
    /\ run[1].store0 = <<ApiActivity(url_1)>>
    /\ run[1].result.updated_activities = 1
    /\ run[1].result.new_activities = 1
    /\ Len(store) = 2
    /\ store[1].title = <<"T", "1">>
    /\ ~store[1].ai_classified
    /\ store[1].activity_type = "Research"
    /\ store[2].external_url = oai_4

\* ------------------------------------------------------------- json.loads
\* services/classifier.py. A parsed JSON value carries its Python type in t:
\* "int", "float", "str", "bool" (n is 1 for True, 0 for False), "null",
\* "list" (items) and "dict" (pairs, in document order).

JInt(n) == [t |-> "int", n |-> n, s |-> <<>>, items |-> <<>>, pairs |-> <<>>]
JFloat(text) == [t |-> "float", n |-> 0, s |-> text, items |-> <<>>, pairs |-> <<>>]
JStr(text) == [t |-> "str", n |-> 0, s |-> text, items |-> <<>>, pairs |-> <<>>]
JBool(n) == [t |-> "bool", n |-> n, s |-> <<>>, items |-> <<>>, pairs |-> <<>>]
JNull == [t |-> "null", n |-> 0, s |-> <<>>, items |-> <<>>, pairs |-> <<>>]
JList(items) == [t |-> "list", n |-> 0, s |-> <<>>, items |-> items, pairs |-> <<>>]
JDict(pairs) == [t |-> "dict", n |-> 0, s |-> <<>>, items |-> <<>>, pairs |-> pairs]

Quote == "\""
Newline == "\n"

\* Whitespace of the texts drawn: blank and line feed
Ws == {" ", Newline}

\* The first position at or after i that holds no whitespace
SkipWs(s, i) ==
    LET stops == {j \in i..Len(s) : s[j] \notin Ws}
    IN  IF stops = {} THEN Len(s) + 1 ELSE CHOOSE j \in stops : \A k \in stops : j <= k

\* The first position at or after i that holds no digit
DigitsEnd(s, i) ==
    LET stops == {j \in i..Len(s) : s[j] \notin Digits}
    IN  IF stops = {} THEN Len(s) + 1 ELSE CHOOSE j \in stops : \A k \in stops : j <= k

\* s has sub at position i
StartsAt(s, i, sub) ==
    /\ i >= 1
    /\ i + Len(sub) - 1 <= Len(s)
    /\ SubSeq(s, i, i + Len(sub) - 1) = sub

Fail == [ok |-> FALSE, val |-> JNull, pos |-> 0]
Ok(v, p) == [ok |-> TRUE, val |-> v, pos |-> p]

\* A JSON number at i: -?(0|[1-9]\d*)(\.\d+)?
ParseNumber(s, i) ==
    LET neg == s[i] = "-"
        a == IF neg THEN i + 1 ELSE i
        b == DigitsEnd(s, a)
    IN  IF b = a THEN Fail
        ELSE IF b - a > 1 /\ s[a] = "0" THEN Fail
        ELSE IF b <= Len(s) /\ s[b] = "."
             THEN LET c == DigitsEnd(s, b + 1)
                  IN  IF c = b + 1 THEN Fail
                      ELSE Ok(JFloat(SubSeq(s, i, c - 1)), c)
        ELSE Ok(JInt((IF neg THEN -1 ELSE 1) * NumVal(SubSeq(s, a, b - 1))), b)

\* A JSON string at i (s[i] is the opening quote); the texts drawn hold no
\* backslash, and a line feed inside a string is refused
ParseString(s, i) ==
    LET close == {j \in (i + 1)..Len(s) : s[j] = Quote}
    IN  IF close = {} THEN Fail
        ELSE LET j == CHOOSE c \in close : \A d \in close : c <= d
             IN  IF \E k \in (i + 1)..(j - 1) : s[k] = Newline THEN Fail
                 ELSE Ok(JStr(SubSeq(s, i + 1, j - 1)), j + 1)

\* F(x), with x worked out once
Bind(x, F(_)) == CHOOSE r \in {F(v) : v \in {x}} : TRUE

RECURSIVE ParseValue(_, _)
RECURSIVE ParseElements(_, _, _)
RECURSIVE ParseMembers(_, _, _)

\* A JSON value at i
ParseValue(s, i) ==
    IF i > Len(s) THEN Fail
    ELSE IF s[i] = "{"
         THEN LET j == SkipWs(s, i + 1)
              IN  IF j <= Len(s) /\ s[j] = "}" THEN Ok(JDict(<<>>), j + 1)
                  ELSE ParseMembers(s, j, <<>>)
    ELSE IF s[i] = "["
         THEN LET j == SkipWs(s, i + 1)
              IN  IF j <= Len(s) /\ s[j] = "]" THEN Ok(JList(<<>>), j + 1)
                  ELSE ParseElements(s, j, <<>>)
    ELSE IF s[i] = Quote THEN ParseString(s, i)
    ELSE IF s[i] = "-" \/ s[i] \in Digits THEN ParseNumber(s, i)
    ELSE IF StartsAt(s, i, <<"t","r","u","e">>) THEN Ok(JBool(1), i + 4)
    ELSE IF StartsAt(s, i, <<"f","a","l","s","e">>) THEN Ok(JBool(0), i + 5)
    ELSE IF StartsAt(s, i, <<"n","u","l","l">>) THEN Ok(JNull, i + 4)
    ELSE Fail

\* The elements of an array from i on, up to the closing bracket
ParseElements(s, i, acc) ==
    Bind(ParseValue(s, i), LAMBDA v :
        IF ~v.ok THEN Fail
        ELSE LET j == SkipWs(s, v.pos)
             IN  IF j > Len(s) THEN Fail
                 ELSE IF s[j] = ","
                      THEN ParseElements(s, SkipWs(s, j + 1), Append(acc, v.val))
                 ELSE IF s[j] = "]" THEN Ok(JList(Append(acc, v.val)), j + 1)
                 ELSE Fail)

\* The members of an object from i on, up to the closing brace
ParseMembers(s, i, acc) ==
    IF i > Len(s) \/ s[i] # Quote THEN Fail
    ELSE Bind(ParseString(s, i), LAMBDA k :
        IF ~k.ok THEN Fail
        ELSE LET c == SkipWs(s, k.pos)
             IN  IF c > Len(s) \/ s[c] # ":" THEN Fail
                 ELSE Bind(ParseValue(s, SkipWs(s, c + 1)), LAMBDA v :
                     IF ~v.ok THEN Fail
                     ELSE LET j == SkipWs(s, v.pos)
                              more == Append(acc, [k |-> k.val.s, val |-> v.val])
                          IN  IF j > Len(s) THEN Fail
                              ELSE IF s[j] = ","
                                   THEN ParseMembers(s, SkipWs(s, j + 1), more)
                              ELSE IF s[j] = "}" THEN Ok(JDict(more), j + 1)
                              ELSE Fail))

\* json.loads(text): one value, whitespace around it, nothing else
json_loads(s) ==
    Bind(ParseValue(s, SkipWs(s, 1)), LAMBDA v :
        IF v.ok /\ SkipWs(s, v.pos) = Len(s) + 1
        THEN [exc |-> "", val |-> v.val]
        ELSE [exc |-> "JSONDecodeError", val |-> JNull])

\* ------------------------------------------- SDGClassifier, response parsing

\* The grave accent character U+0060, which no TLA+ string can hold
Tick == "<tick>"

\* The Markdown fence: three grave accents, and the same followed by json
Fence == <<Tick, Tick, Tick>>
FenceJson == Fence \o <<"j","s","o","n">>

k_impacts == <<"i","m","p","a","c","t","s">>
k_sdg_number == <<"s","d","g","_","n","u","m","b","e","r">>
k_relevance_score == <<"r","e","l","e","v","a","n","c","e","_","s","c","o","r","e">>
k_justification == <<"j","u","s","t","i","f","i","c","a","t","i","o","n">>

\* The first position at or after from where sub begins, 0 when there is none
IndexOf(s, sub, from) ==
    LET at == {i \in from..Len(s) : StartsAt(s, i, sub)}
    IN  IF at = {} THEN 0 ELSE CHOOSE i \in at : \A j \in at : i <= j

\* s.split(sep)[0]
SplitFirst(s, sep) ==
    LET i == IndexOf(s, sep, 1)
    IN  IF i = 0 THEN s ELSE SubSeq(s, 1, i - 1)

\* s.split(sep)[1], for sep in s
SplitSecond(s, sep) ==
    LET a == IndexOf(s, sep, 1) + Len(sep)
        b == IndexOf(s, sep, a)
    IN  IF b = 0 THEN SubSeq(s, a, Len(s)) ELSE SubSeq(s, a, b - 1)

\* s.strip()
Strip(s) ==
    LET a == SkipWs(s, 1)
        ends == {j \in a..Len(s) : s[j] \notin Ws}
    IN  IF ends = {} THEN <<>>
        ELSE SubSeq(s, a, CHOOSE j \in ends : \A k \in ends : k <= j)

\* Variant: the text before the fence is taken in place of the text inside it
StripFenceBefore(response_text) ==
    IF Contains(response_text, FenceJson)
    THEN Strip(SplitFirst(response_text, FenceJson))
    ELSE IF Contains(response_text, Fence)
    THEN Strip(SplitFirst(response_text, Fence))
    ELSE response_text

\* The two fence branches: the text between the first json fence (else the
\* first fence) and the fence after it, stripped
StripFence(response_text) ==
    IF Contains(response_text, FenceJson)
    THEN Strip(SplitFirst(SplitSecond(response_text, FenceJson), Fence))
    ELSE IF Contains(response_text, Fence)
    THEN Strip(SplitFirst(SplitSecond(response_text, Fence), Fence))
    ELSE response_text

\* re.search(r'\{[\s\S]*\}', text): from the first "{" to the last "}"
SearchObject(s) ==
    LET a == IndexOf(s, <<"{">>, 1)
        ends == {j \in 1..Len(s) : s[j] = "}" /\ j > a}
    IN  IF a = 0 \/ ends = {} THEN [found |-> FALSE, group |-> <<>>]
        ELSE [found |-> TRUE,
              group |-> SubSeq(s, a, CHOOSE j \in ends : \A k \in ends : k <= j)]

\* data = json.loads(response_text), with the regex fall-back of the except
\* clause; a JSONDecodeError of the second json.loads is not caught
LoadData(response_text) ==
    Bind(json_loads(response_text), LAMBDA first :
        IF first.exc = "" THEN first
        ELSE LET m == SearchObject(response_text)
             IN  IF m.found THEN json_loads(m.group)
                 ELSE [exc |-> "ValueError", val |-> JNull])

\* key in d
HasKey(d, key) == \E i \in 1..Len(d.pairs) : d.pairs[i].k = key

\* d[key]: json.loads keeps the last of repeated keys
Item(d, key) ==
    LET at == {i \in 1..Len(d.pairs) : d.pairs[i].k = key}
    IN  d.pairs[CHOOSE i \in at : \A j \in at : j <= i].val

\* isinstance(v, int): bool is a subclass of int
IsInstanceInt(v) == v.t \in {"int", "bool"}

\* The body of the loop over impacts: TRUE when it raises ValueError
ImpactRaises(impact) ==
    IF impact.t # "dict" THEN TRUE
    ELSE IF ~(\A key \in {k_sdg_number, k_relevance_score, k_justification} :
                 HasKey(impact, key))
    THEN TRUE
    ELSE IF \/ ~IsInstanceInt(Item(impact, k_sdg_number))
            \/ ~(1 <= Item(impact, k_sdg_number).n /\ Item(impact, k_sdg_number).n <= 17)
    THEN TRUE
    ELSE IF \/ ~IsInstanceInt(Item(impact, k_relevance_score))
            \/ ~(0 <= Item(impact, k_relevance_score).n
                 /\ Item(impact, k_relevance_score).n <= 100)
    THEN TRUE
    ELSE Item(impact, k_justification).t # "str"

NoImpacts == <<>>

\* SDGClassifier._parse_json_response: exc names what it raises, impacts is
\* the list it returns
_parse_json_response(response_text) ==
    Bind(LoadData(StripFence(response_text)), LAMBDA loaded :
        IF loaded.exc # "" THEN [exc |-> loaded.exc, impacts |-> NoImpacts]
        ELSE IF loaded.val.t # "dict" \/ ~HasKey(loaded.val, k_impacts)
        THEN [exc |-> "ValueError", impacts |-> NoImpacts]
        ELSE IF Item(loaded.val, k_impacts).t # "list"
        THEN [exc |-> "ValueError", impacts |-> NoImpacts]
        ELSE IF \E i \in 1..Len(Item(loaded.val, k_impacts).items) :
                    ImpactRaises(Item(loaded.val, k_impacts).items[i])
        THEN [exc |-> "ValueError", impacts |-> NoImpacts]
        ELSE [exc |-> "", impacts |-> Item(loaded.val, k_impacts).items])

\* SDGClassifier.classify_activity_sdg once generate_content has answered:
\* response.text.strip(), _parse_json_response, JSONDecodeError re-raised as
\* ValueError, anything else re-raised as it is
classify_activity_sdg(text) ==
    Bind(_parse_json_response(Strip(text)), LAMBDA parsed :
        IF parsed.exc = "JSONDecodeError"
        THEN [exc |-> "ValueError", impacts |-> NoImpacts]
        ELSE parsed)

\* --------------------------------------------- the model's response texts

DigitChars == <<"0","1","2","3","4","5","6","7","8","9">>

RECURSIVE NatText(_)
NatText(n) ==
    IF n < 10 THEN <<DigitChars[n + 1]>>
    ELSE NatText(n \div 10) \o <<DigitChars[(n % 10) + 1]>>

IntText(n) == IF n < 0 THEN <<"-">> \o NatText(-n) ELSE NatText(n)

RECURSIVE Dumps(_)
RECURSIVE DumpItems(_)
RECURSIVE DumpPairs(_)

\* The text of a JSON value as the prompt asks for it: "key": value, items
\* and members separated by ", "
Dumps(v) ==
    IF v.t = "int" THEN IntText(v.n)
    ELSE IF v.t = "float" THEN v.s
    ELSE IF v.t = "str" THEN <<Quote>> \o v.s \o <<Quote>>
    ELSE IF v.t = "bool" THEN (IF v.n = 1 THEN <<"t","r","u","e">>
                               ELSE <<"f","a","l","s","e">>)
    ELSE IF v.t = "null" THEN <<"n","u","l","l">>
    ELSE IF v.t = "list" THEN <<"[">> \o DumpItems(v.items) \o <<"]">>
    ELSE <<"{">> \o DumpPairs(v.pairs) \o <<"}">>

DumpItems(items) ==
    IF Len(items) = 0 THEN <<>>
    ELSE IF Len(items) = 1 THEN Dumps(items[1])
    ELSE Dumps(items[1]) \o <<",", " ">> \o DumpItems(Tail(items))

DumpPairs(pairs) ==
    IF Len(pairs) = 0 THEN <<>>
    ELSE LET head == <<Quote>> \o pairs[1].k \o <<Quote, ":", " ">> \o Dumps(pairs[1].val)
         IN  IF Len(pairs) = 1 THEN head
             ELSE head \o <<",", " ">> \o DumpPairs(Tail(pairs))

\* {"sdg_number": ..., "relevance_score": ..., "justification": ...}
Impact(sdg_number, relevance_score, justification) ==
    JDict(<< [k |-> k_sdg_number, val |-> sdg_number],
             [k |-> k_relevance_score, val |-> relevance_score],
             [k |-> k_justification, val |-> justification] >>)

i_ok == Impact(JInt(1), JInt(85), JStr(<<"x">>))
i_edge == Impact(JInt(17), JInt(0), JStr(<<>>))
i_sdg18 == Impact(JInt(18), JInt(85), JStr(<<"x">>))
i_sdg0 == Impact(JInt(0), JInt(85), JStr(<<"x">>))
i_sdg_true == Impact(JBool(1), JInt(85), JStr(<<"x">>))
i_sdg_text == Impact(JStr(<<"3">>), JInt(85), JStr(<<"x">>))
i_score150 == Impact(JInt(3), JInt(150), JStr(<<"x">>))
i_score_neg == Impact(JInt(3), JInt(-1), JStr(<<"x">>))
i_score_float == Impact(JInt(3), JFloat(<<"5","0",".","5">>), JStr(<<"x">>))
i_score_false == Impact(JInt(3), JBool(0), JStr(<<"x">>))
i_just_int == Impact(JInt(3), JInt(50), JInt(5))
i_no_just ==
    JDict(<< [k |-> k_sdg_number, val |-> JInt(3)],
             [k |-> k_relevance_score, val |-> JInt(50)] >>)
i_extra ==
    JDict(<< [k |-> k_sdg_number, val |-> JInt(3)],
             [k |-> k_relevance_score, val |-> JInt(50)],
             [k |-> k_justification, val |-> JStr(<<"x">>)],
             [k |-> <<"n","o","t","e">>, val |-> JStr(<<"n">>)] >>)

\* The elements an impacts list is drawn from: two sound ones, one for each
\* way of breaking the schema, and a number in place of an object
ImpactEntries ==
    { i_ok, i_edge, i_sdg18, i_sdg0, i_sdg_true, i_sdg_text, i_score150,
      i_score_neg, i_score_float, i_score_false, i_just_int, i_no_just,
      i_extra, JInt(5) }

\* Longest impacts list drawn
MaxImpacts == 2

ImpactLists == UNION {[1..n -> ImpactEntries] : n \in 0..MaxImpacts}

\* {"impacts": [...]}
Doc(items) == JDict(<< [k |-> k_impacts, val |-> JList(items)] >>)

\* Documents of another shape: an array, an object without the key, impacts
\* that is an object or null, a number
OtherDocs ==
    { JList(<<>>), JDict(<<>>),
      JDict(<< [k |-> k_impacts, val |-> JDict(<<>>)] >>),
      JDict(<< [k |-> k_impacts, val |-> JNull] >>),
      JInt(5) }

\* The ways the model dresses its document: as it is, with whitespace
\* around, in a json fence, in a bare fence, with prose around, with a fence
\* and prose after it, with prose before it and a braced remark after it
Wraps == {"plain", "padded", "fenced", "bare", "prose", "trailing", "braces"}

Wrap(kind, d) ==
    CASE kind = "plain" -> d
      [] kind = "padded" -> <<" ">> \o d \o <<Newline>>
      [] kind = "fenced" -> FenceJson \o <<Newline>> \o d \o <<Newline>> \o Fence
      [] kind = "bare" -> Fence \o <<Newline>> \o d \o <<Newline>> \o Fence
      [] kind = "prose" -> <<"H","i",":"," ">> \o d \o <<" ","o","k">>
      [] kind = "trailing" -> d \o <<" ">> \o Fence \o <<" ","n","o">>
      [] kind = "braces" -> <<"H","i",":"," ">> \o d \o <<" ","{","o","k","}">>

\* The same text inside a json fence
Fenced(text) == FenceJson \o <<Newline>> \o text \o <<Newline>> \o Fence

\* What generate_content can answer: every impacts list as it is, and the
\* lists of at most one element and the other documents in every dress
Responses ==
    { [sent |-> Doc(items), wrap |-> "plain"] : items \in ImpactLists }
    \cup
    { [sent |-> d, wrap |-> w] :
      d \in OtherDocs \cup {Doc(items) : items \in {<<>>} \cup {<<e>> : e \in ImpactEntries}},
      w \in Wraps }

NoOut == [exc |-> "", impacts |-> NoImpacts]

ClassifyInit ==
    /\ store = <<>>
    /\ sdg_impacts = <<>>
    /\ classified = {}
    /\ _classifier = NoClassifier
    /\ thread = [t \in Threads |-> IdleThread]
    /\ instances = NoInstances
    /\ default_lead_author = "admin"
    /\ run = [p \in Procs |-> IdleRun]
    /\ prev = NoPrev
    /\ cmd = NoCmd
    /\ ex = NoEx
    /\ call \in {[pc |-> "prompted", sent |-> r.sent, wrap |-> r.wrap,
                  text |-> Wrap(r.wrap, Dumps(r.sent)),
                  out |-> NoOut, parsed |-> NoOut, fenced |-> NoOut] :
                 r \in Responses}

\* self.model.generate_content(prompt) raises: logged and re-raised
GenerateRaises ==
    /\ call.pc = "prompted"
    /\ call' = [call EXCEPT !.pc = "failed", !.out = [exc |-> "Exception", impacts |-> NoImpacts]]
    /\ UNCHANGED <<store, default_lead_author, run, prev, cmd, ex, sdg_impacts, classified,
                 _classifier, thread, instances>>

\* generate_content returns a response that holds no text part (a blocked
\* or empty candidate): reading response.text raises ValueError, which is
\* logged and re-raised as it is
TextRaises ==
    /\ call.pc = "prompted"
    /\ call' = [call EXCEPT !.pc = "failed", !.out = [exc |-> "ValueError", impacts |-> NoImpacts]]
    /\ UNCHANGED <<store, default_lead_author, run, prev, cmd, ex, sdg_impacts, classified,
                 _classifier, thread, instances>>

\* classify_activity_sdg with the drawn text as the model's answer
Classify ==
    /\ call.pc = "prompted"
    /\ call' = [call EXCEPT !.pc = "classified", !.out = classify_activity_sdg(call.text)]
    /\ UNCHANGED <<store, default_lead_author, run, prev, cmd, ex, sdg_impacts, classified,
                 _classifier, thread, instances>>

\* _parse_json_response on the same text, bare and inside a json fence
ParseBoth ==
    /\ call.pc = "classified"
    /\ call' = [call EXCEPT !.pc = "compared",
                            !.parsed = _parse_json_response(call.text),
                            !.fenced = _parse_json_response(Fenced(call.text))]
    /\ UNCHANGED <<store, default_lead_author, run, prev, cmd, ex, sdg_impacts, classified,
                 _classifier, thread, instances>>

ClassifyNext == GenerateRaises \/ TextRaises \/ Classify \/ ParseBoth

SpecClassify == ClassifyInit /\ [][ClassifyNext]_vars

\* ------------------------------------------------- classifier validation

RequiredKeys == {k_sdg_number, k_relevance_score, k_justification}

\* The call has come back from _parse_json_response
Answered == call.pc \in {"classified", "compared"}

\* The schema of one impact: an object with the three keys, sdg_number a
\* JSON integer in 1..17, relevance_score a JSON integer in 0..100,
\* justification a string
SchemaSound(e) ==
    /\ e.t = "dict"
    /\ \A key \in RequiredKeys : HasKey(e, key)
    /\ Item(e, k_sdg_number).t = "int"
    /\ Item(e, k_sdg_number).n \in 1..17
    /\ Item(e, k_relevance_score).t = "int"
    /\ Item(e, k_relevance_score).n \in 0..100
    /\ Item(e, k_justification).t = "str"

\* The model answered {"impacts": [...]} and the list is items
SentList ==
    IF call.sent.t = "dict" /\ HasKey(call.sent, k_impacts)
       /\ Item(call.sent, k_impacts).t = "list"
    THEN Item(call.sent, k_impacts).items
    ELSE <<>>

\* C17: when any element of the impacts list the model sent breaks the
\* schema, the call raises and returns no list, sound elements before or
\* after it notwithstanding.
C17_AllOrNothing ==
    (Answered /\ \E i \in 1..Len(SentList) : ~SchemaSound(SentList[i])) =>
        /\ call.out.exc # ""
        /\ call.out.impacts = NoImpacts

\* C18: every impact of a returned list has a JSON integer sdg_number in
\* 1..17 (no boolean, float or string), a JSON integer relevance_score in
\* 0..100 and a string justification.
C18_ReturnedImpactsTyped ==
    (Answered /\ call.out.exc = "") =>
        \A i \in 1..Len(call.out.impacts) :
            LET e == call.out.impacts[i]
            IN  /\ e.t = "dict"
                /\ Item(e, k_sdg_number).t = "int"
                /\ Item(e, k_sdg_number).n \in 1..17
                /\ Item(e, k_relevance_score).t = "int"
                /\ Item(e, k_relevance_score).n \in 0..100
                /\ Item(e, k_justification).t = "str"

\* C19: every element of an accepted impacts list is an object with the
\* three keys sdg_number, relevance_score, justification and no other key.
C19_ExactlyThreeKeys ==
    (Answered /\ call.out.exc = "") =>
        \A i \in 1..Len(call.out.impacts) :
            LET e == call.out.impacts[i]
            IN  /\ e.t = "dict"
                /\ {e.pairs[j].k : j \in 1..Len(e.pairs)} = RequiredKeys

\* C20 as stated: a text that is accepted is accepted inside a json fence
\* with the same impacts list, and a text that is rejected is rejected
\* inside the fence.
C20_FenceChangesNothing ==
    call.pc = "compared" =>
        /\ call.parsed.exc = "" =>
               (call.fenced.exc = "" /\ call.fenced.impacts = call.parsed.impacts)
        /\ call.parsed.exc # "" => call.fenced.exc # ""

\* C20, amended: the same for every text that holds no fence marker of its
\* own.
C20_FenceChangesNothingUnfenced ==
    (call.pc = "compared" /\ ~Contains(call.text, Fence)) =>
        /\ call.parsed.exc = "" =>
               (call.fenced.exc = "" /\ call.fenced.impacts = call.parsed.impacts)
        /\ call.parsed.exc # "" => call.fenced.exc # ""

\* A document with prose around it, which the regular expression digs out,
\* was accepted bare and inside a fence with the same one impact
C20_Witness ==
    /\ call.pc = "compared"
    /\ call.wrap = "prose"
    /\ call.sent = Doc(<<i_ok>>)
    /\ call.parsed.exc = ""
    /\ call.fenced.exc = ""
    /\ call.fenced.impacts = <<i_ok>>

\* C21: a text made of prose, one valid JSON object and further text that
\* holds braces of its own is answered with the validated content of that
\* first object.
C21_FirstBalancedObject ==
    (Answered /\ call.wrap = "braces" /\ call.sent = Doc(SentList)
       /\ \A i \in 1..Len(SentList) : SchemaSound(SentList[i])) =>
        /\ call.out.exc = ""
        /\ call.out.impacts = SentList

\* C22: every failure of the validation of the response is a ValueError,
\* a failure of the call to the model itself is an error of another kind,
\* and in both cases no impacts list is returned.
C22_ErrorsDistinct ==
    /\ (Answered /\ call.out.exc # "") =>
           (call.out.exc = "ValueError" /\ call.out.impacts = NoImpacts)
    /\ call.pc = "failed" =>
           (call.out.exc # "ValueError" /\ call.out.impacts = NoImpacts)

\* ------------------------------------------------ counters, types, duplicates

\* The three counters of a run in progress
Counters(r) == <<r.count, r.new_count, r.updated_count>>

\* C26: at every point of a run and in the dictionary it returns,
\* total_processed = new_activities + updated_activities and no counter is
\* negative; no step of a run decreases a counter.
C26_CountersAddUp ==
    /\ [](\A p \in Procs :
            /\ run[p].count = run[p].new_count + run[p].updated_count
            /\ \A k \in 1..3 : Counters(run[p])[k] >= 0
            /\ run[p].pc = "returned" =>
                   /\ run[p].result.total_processed =
                          run[p].result.new_activities + run[p].result.updated_activities
                   /\ run[p].result.new_activities >= 0
                   /\ run[p].result.updated_activities >= 0
                   /\ run[p].result.total_processed = run[p].count
                   /\ run[p].result.new_activities = run[p].new_count
                   /\ run[p].result.updated_activities = run[p].updated_count)
    /\ [][\A p \in Procs :
            (run[p].pc = "loop" /\ run'[p].pc \in {"loop", "returned", "raised"}) =>
                \A k \in 1..3 : Counters(run'[p])[k] >= Counters(run[p])[k]]_vars

\* A run that created one Activity, updated it from a second record and
\* skipped a failing record has returned 2 = 1 + 1
C26_Witness ==
    /\ run[1].pc = "returned"
    /\ run[1].errors = 1
    /\ run[1].result =
           [total_processed |-> 2, new_activities |-> 1, updated_activities |-> 1]

\* The values Activity.ACTIVITY_TYPES allows
ACTIVITY_TYPES == {"Project", "Publication"}

\* C27: every Activity that harvest_records created or updated holds an
\* activity_type among the allowed choices, whatever the type strings of
\* the record.
C27_TypeWithinChoices ==
    \A i \in 1..Len(store) :
        store[i].is_scraped => store[i].activity_type \in ACTIVITY_TYPES

\* The records attempted so far that derive the URL u
Deriving(r, u) ==
    {k \in 1..Len(r.attempted) :
        LET parsed == _parse_record_to_activity_data(Catalogue[r.attempted[k]],
                                                     default_lead_author)
        IN  parsed.exc = "" /\ parsed.data.external_url = u}

\* C29: in a run that starts from a table with two or more Activities of
\* one external_url, no record deriving that URL is upserted or counted:
\* those Activities stay as they were, none is added for the URL, each such
\* record is one handled error, and the call does not raise for it.
C29_DuplicateUrlFailsRecord ==
    \A u \in {url_1, url_2, url_3, oai_1, oai_2, oai_3, oai_4} :
        LET r == run[1]
        IN  (r.pc \in {"loop", "returned", "raised"}
             /\ Cardinality(Matching(r.store0, u)) >= 2) =>
                /\ Matching(store, u) = Matching(r.store0, u)
                /\ \A i \in Matching(store, u) : store[i] = r.store0[i]
                /\ \A k \in 1..Len(r.upserted) : r.upserted[k].external_url # u
                /\ r.count = Len(r.upserted)
                /\ r.new_count + r.updated_count = Len(r.upserted)
                /\ r.errors >= Cardinality(Deriving(r, u))
                /\ r.pc = "raised" => r.fatal
                /\ (r.pc = "returned" /\ ~LimitSet(r.limit)) =>
                       Len(r.attempted) = Len(r.stream)

\* From a table with two Activities of url_1, RecA and RecB (both derive
\* url_1) failed and RecD was created; the run returned
C29_Witness ==
    /\ run[1].pc = "returned"
    /\ Cardinality(Matching(run[1].store0, url_1)) = 2
    /\ run[1].stream = <<1, 4, 2>>
    /\ run[1].errors = 2
    /\ run[1].result.new_activities = 1
    /\ Len(store) = 3

\* ------------------------------------------------------- unbounded listings

\* The positive limits tried against a listing that need not end
PositiveLimits == {1, 2}

\* Records in one page of the listing
PageSize == 2

\* harvest_records(limit=limit) opens a listing of which nothing is known:
\* the records come page after page from Yield, for as long as the remote
\* repository has more; cursor is the iterator's position in its page
HarvestUnbounded(p, limit) ==
    /\ run[p].pc = "idle"
    /\ run' = [run EXCEPT ![p] = [Listing(<<>>, limit) EXCEPT !.store0 = store]]
    /\ UNCHANGED <<store, default_lead_author, prev, cmd, ex, call, sdg_impacts, classified,
                 _classifier, thread, instances>>

\* The body of the loop on one record, from extraction to the counters or
\* to the except clause: the run and the table after it
Body(r, st, record, lead) ==
    LET parsed == _parse_record_to_activity_data(record, lead)
        done == update_or_create(st, parsed.data.external_url, parsed.data)
    IN  IF parsed.exc # "" \/ done.exc # ""
        THEN [run |-> RecordError(r), store |-> st]
        ELSE [run |-> Counted(r, done.created), store |-> done.store]

\* One turn of the loop on the record Catalogue[i] that the iterator yields:
\* the iterator moves on in its page (to the next page after the last
\* record), then the limit test breaks out, or the body runs
Yield(p, i) ==
    /\ run[p].pc = "loop"
    /\ \E after \in {IF LimitReached(run[p].limit, run[p].count)
                      THEN [run |-> ReturnResult(run[p]), store |-> store]
                      ELSE Body(run[p], store, Catalogue[i], default_lead_author)} :
          /\ run' = [run EXCEPT ![p] =
                        [after.run EXCEPT !.cursor = (@ + 1) % PageSize]]
          /\ store' = after.store
    /\ UNCHANGED <<default_lead_author, prev, cmd, ex, call, sdg_impacts, classified,
                 _classifier, thread, instances>>

\* The iterator answers: the end of the listing (after a whole page), an
\* error, or a record
LoopTurn(p) ==
    \/ StopIteration(p)
    \/ NextRaises(p)
    \/ \E i \in 1..Len(Catalogue) : Yield(p, i)

LiveNext ==
    \/ \E limit \in PositiveLimits : HarvestUnbounded(1, limit)
    \/ LoopTurn(1)
    \/ CallOver(1)

\* The interpreter keeps running the loop: a turn that can be taken is taken
SpecLive == Init /\ [][LiveNext]_vars /\ WF_vars(LoopTurn(1))

\* C24: with a positive limit every run comes to an end, whatever the
\* listing yields and however many of its records fail.
C24_LimitedRunTerminates ==
    (run[1].pc = "loop" /\ run[1].limit \in PositiveLimits)
        ~> (run[1].pc \in {"returned", "raised"})

\* ------------------------------------------------- records without identifier

UnknownID == <<"U","n","k","n","o","w","n"," ","I","D">>

\* rec_id = getattr(record.header, 'identifier', 'Unknown ID'): the default
\* stands in for a missing identifier attribute, and record.header itself
\* is read without a default
RecId(record) ==
    IF ~HasAttr(record, "header") THEN [exc |-> "AttributeError", v |-> NoneVal]
    ELSE IF HasAttr(record.header, "identifier")
         THEN [exc |-> "", v |-> record.header.identifier]
         ELSE [exc |-> "", v |-> UnknownID]

\* The except clause of the loop on a record: rec_id is read and printed and
\* the loop goes on, or reading it raises inside the clause and the
\* exception reaches the outer except clause
Handler(r, record) ==
    IF RecId(record).exc # "" THEN Propagate(r, RecId(record).exc)
    ELSE [RecordError(r) EXCEPT !.rec_id = RecId(record).v, !.errors = @ + 1]

\* A header that carries a datestamp and no identifier attribute
RecNoIdentifier ==
    [header |-> [datestamp |-> <<"2","0","2","0">>],
     metadata |-> [title |-> << <<"T","5">> >>]]

\* header is None
RecNoneHeader ==
    [header |-> NoneObj,
     metadata |-> [title |-> << <<"T","6">> >>, identifier |-> << <<"h","t">> >>]]

\* header.identifier is None (an empty identifier element) and the first
\* dc:identifier is None too
RecNoneIdentifier ==
    [header |-> [identifier |-> NoneVal],
     metadata |-> [identifier |-> <<NoneVal, url_3>>]]

\* An object without a header attribute
RecNoHeader ==
    [metadata |-> [title |-> << <<"T","7">> >>]]

\* The same with a link of its own: extraction never reads the header, and
\* the upsert fails when two Activities hold the link
RecNoHeaderLinked ==
    [metadata |-> [title |-> << <<"T","8">> >>, identifier |-> <<url_1>>]]

\* The records of a listing whose headers are not all sound
Headers ==
    <<RecNoIdentifier, RecNoneHeader, RecNoneIdentifier, RecNoHeader,
      RecNoHeaderLinked, RecC, RecD>>

\* Most records of such a listing
MaxHeaders == 2

HeaderStreams == UNION {[1..n -> 1..Len(Headers)] : n \in 0..MaxHeaders}

\* harvest_records() opens a listing that yields `stream`, records of Headers
HarvestHeaders(p, stream) ==
    /\ run[p].pc = "idle"
    /\ run' = [run EXCEPT ![p] = [Listing(stream, NoLimit) EXCEPT !.store0 = store]]
    /\ UNCHANGED <<store, default_lead_author, prev, cmd, ex, call, sdg_impacts, classified,
                 _classifier, thread, instances>>

\* One iteration of the loop body on the next record of Headers: extract,
\* update_or_create, count; or the except clause with its rec_id
ProcessHeader(p) ==
    /\ run[p].pc = "loop"
    /\ run[p].cursor < Len(run[p].stream)
    /\ LET i == run[p].stream[run[p].cursor + 1]
           r == [run[p] EXCEPT !.cursor = @ + 1, !.attempted = Append(@, i)]
           parsed == _parse_record_to_activity_data(Headers[i], default_lead_author)
           done == update_or_create(store, parsed.data.external_url, parsed.data)
       IN  IF parsed.exc # "" \/ done.exc # ""
           THEN /\ run' = [run EXCEPT ![p] = Handler(r, Headers[i])]
                /\ store' = store
           ELSE /\ run' = [run EXCEPT ![p] =
                              [Counted(r, done.created) EXCEPT
                                  !.upserted = Append(@, parsed.data)]]
                /\ store' = done.store
    /\ UNCHANGED <<default_lead_author, prev, cmd, ex, call, sdg_impacts, classified,
                 _classifier, thread, instances>>

HeadersNext ==
    \/ \E stream \in HeaderStreams : HarvestHeaders(1, stream)
    \/ ProcessHeader(1)
    \/ StopIteration(1)
    \/ CallOver(1)

SpecHeaders == Init /\ [][HeadersNext]_vars

\* The remote identifier of the record cannot be had: no header attribute,
\* a header that is None, a header without identifier, or an identifier
\* that is None
IdUnavailable(record) ==
    \/ HeaderIdentifier(record).exc # ""
    \/ HeaderIdentifier(record).v = NoneVal

\* C25: when the loop meets a record that fails and whose remote
\* identifier cannot be had, the handler prints "Unknown ID", raises
\* nothing and the loop goes on to the next record.
C25_UnknownIdFallback ==
    [][\A i \in 1..Len(Headers) :
          (/\ run[1].pc = "loop"
           /\ run'[1].attempted = Append(run[1].attempted, i)
           /\ Len(run'[1].upserted) = Len(run[1].upserted)
           /\ IdUnavailable(Headers[i]))
          => /\ run'[1].pc = "loop"
             /\ run'[1].exc = ""
             /\ run'[1].rec_id = UnknownID
             /\ run'[1].errors = run[1].errors + 1]_vars

\* ------------------------------------------------------------ SDGImpact rows

\* The SDGGoal table: every goal seeded but goal 5
SDGGoals == (1..17) \ {5}

\* The integer a column lookup or save makes of a validated number: True
\* and False are the integers 1 and 0
IntOf(v) == v.n

\* SDGGoal.objects.get(number=sdg_number): 0 stands for DoesNotExist
GoalGet(sdg_number) ==
    IF IntOf(sdg_number) \in SDGGoals THEN IntOf(sdg_number) ELSE 0

\* SDGImpact.objects.filter(activity=activity, sdg_goal=sdg_goal)
ImpactMatching(t, activity, sdg_goal) ==
    {i \in 1..Len(t) : t[i].activity = activity /\ t[i].sdg_goal = sdg_goal}

ImpactRow(activity, sdg_goal, score, justification) ==
    [activity |-> activity, sdg_goal |-> sdg_goal,
     score |-> IntOf(score), justification |-> justification.s]

\* Variant: SDGImpact.objects.create(...) for every impact
ImpactCreateOnly(t, activity, sdg_goal, score, justification) ==
    [exc |-> "", table |-> Append(t, ImpactRow(activity, sdg_goal, score, justification))]

\* SDGImpact.objects.update_or_create(activity=activity, sdg_goal=sdg_goal,
\* defaults={'score': score, 'justification': justification})
ImpactUpdateOrCreate(t, activity, sdg_goal, score, justification) ==
    LET m == ImpactMatching(t, activity, sdg_goal)
    IN  IF Cardinality(m) > 1 THEN [exc |-> "MultipleObjectsReturned", table |-> t]
        ELSE IF m = {}
        THEN [exc |-> "",
              table |-> Append(t, ImpactRow(activity, sdg_goal, score, justification))]
        ELSE [exc |-> "",
              table |-> [t EXCEPT ![CHOOSE i \in m : TRUE] =
                            [@ EXCEPT !.score = IntOf(score),
                                      !.justification = justification.s]]]

\* for impact_data in impacts: the goal is looked up, a missing goal is
\* logged and skipped, the row is upserted; each upsert commits on its own,
\* so what was written stays when a later one raises
RECURSIVE SaveImpacts(_, _, _)
SaveImpacts(t, activity, impacts) ==
    IF impacts = <<>> THEN [exc |-> "", table |-> t]
    ELSE IF GoalGet(Item(Head(impacts), k_sdg_number)) = 0
    THEN SaveImpacts(t, activity, Tail(impacts))
    ELSE Bind(ImpactUpdateOrCreate(t, activity,
                                   GoalGet(Item(Head(impacts), k_sdg_number)),
                                   Item(Head(impacts), k_relevance_score),
                                   Item(Head(impacts), k_justification)),
              LAMBDA saved :
                  IF saved.exc # "" THEN saved
                  ELSE SaveImpacts(saved.table, activity, Tail(impacts)))

u_1a == Impact(JInt(1), JInt(80), JStr(<<"a">>))
u_1b == Impact(JInt(1), JInt(20), JStr(<<"b">>))
u_true == Impact(JBool(1), JInt(50), JStr(<<"c">>))
u_3 == Impact(JInt(3), JInt(60), JStr(<<"d">>))
u_5 == Impact(JInt(5), JInt(70), JStr(<<"e">>))

\* The impacts lists the model answers with: one goal, one goal twice (as
\* 1 and as true), two goals, a goal that is not seeded, a list that fails
\* validation
Answers ==
    { <<>>, <<u_1a>>, <<u_1b>>, <<u_true>>, <<u_3>>, <<u_5>>,
      <<u_1a, u_1b>>, <<u_1b, u_1a>>, <<u_1a, u_true>>, <<u_true, u_1b>>,
      <<u_1a, u_3>>, <<u_3, u_1b>>, <<u_5, u_3>>, <<u_1a, u_5>>,
      <<u_1a, i_sdg18>>, <<i_score150>> }

\* classify_activity_sdg(activity.title, activity.description) for each
\* answer of the model
Classified == [items \in Answers |-> classify_activity_sdg(Dumps(Doc(items)))]

\* ActivityViewSet._classify_activity(activity) when the model answers with
\* the list `items`
_classify_activity(activity, items) ==
    /\ activity \in 1..Len(store)
    /\ LET impacts == Classified[items]
           saved == SaveImpacts(sdg_impacts, activity, impacts.impacts)
       IN  IF impacts.exc # "" THEN UNCHANGED <<store, sdg_impacts, classified>>
           ELSE IF saved.exc # ""
           THEN /\ sdg_impacts' = saved.table
                /\ UNCHANGED <<store, classified>>
           ELSE /\ sdg_impacts' = saved.table
                /\ store' = [store EXCEPT ![activity].ai_classified = TRUE]
                /\ classified' = {c \in classified : c[1] # activity}
                                     \cup {<<activity, impacts.impacts>>}
    /\ UNCHANGED <<default_lead_author, run, prev, cmd, ex, call,
                 _classifier, thread, instances>>

\* Two Activities, one harvested from RecA and one made by hand
ImpactsInit ==
    /\ store = <<NewActivity(_parse_record_to_activity_data(RecA, "admin").data),
                 ApiActivity(url_2)>>
    /\ default_lead_author = "admin"
    /\ run = [p \in Procs |-> IdleRun]
    /\ prev = NoPrev
    /\ cmd = NoCmd
    /\ ex = NoEx
    /\ call = NoCall
    /\ sdg_impacts = <<>>
    /\ classified = {}
    /\ _classifier = NoClassifier
    /\ thread = [t \in Threads |-> IdleThread]
    /\ instances = NoInstances

ImpactsNext ==
    \E activity \in 1..Len(store), items \in Answers :
        _classify_activity(activity, items)

SpecImpacts == ImpactsInit /\ [][ImpactsNext]_vars

\* The last entry of the list for the goal, 0 when the list has none
LastFor(impacts, sdg_goal) ==
    LET at == {i \in 1..Len(impacts) :
                  GoalGet(Item(impacts[i], k_sdg_number)) = sdg_goal}
    IN  IF at = {} THEN 0 ELSE CHOOSE i \in at : \A j \in at : j <= i

\* C23: the table holds at most one SDGImpact row for an Activity and a
\* goal, and for each goal named by the latest classification of an
\* Activity that went through, the row holds the score and justification
\* of the last entry of that list for the goal.
C23_OneRowLatestValues ==
    /\ \A i, j \in 1..Len(sdg_impacts) :
           (sdg_impacts[i].activity = sdg_impacts[j].activity
            /\ sdg_impacts[i].sdg_goal = sdg_impacts[j].sdg_goal) => i = j
    /\ \A c \in classified : \A sdg_goal \in SDGGoals :
           LastFor(c[2], sdg_goal) # 0 =>
               \E i \in 1..Len(sdg_impacts) :
                   /\ sdg_impacts[i].activity = c[1]
                   /\ sdg_impacts[i].sdg_goal = sdg_goal
                   /\ sdg_impacts[i].score =
                          Item(c[2][LastFor(c[2], sdg_goal)], k_relevance_score).n
                   /\ sdg_impacts[i].justification =
                          Item(c[2][LastFor(c[2], sdg_goal)], k_justification).s

\* Activity 1 holds a row for goal 3 from an earlier list and its latest
\* list named goal 1 twice, as 1 and as true: the row holds the second
\* entry; Activity 2 has rows of its own
C23_Witness ==
    /\ <<1, <<u_1a, u_true>> >> \in classified
    /\ \E i \in 1..Len(sdg_impacts) :
          /\ sdg_impacts[i] = [activity |-> 1, sdg_goal |-> 1, score |-> 50,
                               justification |-> <<"c">>]
    /\ \E i \in 1..Len(sdg_impacts) :
          /\ sdg_impacts[i].activity = 1 /\ sdg_impacts[i].sdg_goal = 3
    /\ \E i \in 1..Len(sdg_impacts) : sdg_impacts[i].activity = 2

\* ------------------------------------------- harvesting classified Activities

\* The answers of the model while harvests go on: two goals, and a list
\* that fails validation
FewAnswers == { <<u_3, u_1b>>, <<i_score150>> }

\* Harvest runs over one record at a time, and between their steps
\* classifications of the Activities in the table
ReharvestNext ==
    \/ \E i \in 1..Len(Catalogue) : harvest_records(1, <<i>>, NoLimit)
    \/ ProcessRecord(1)
    \/ StopIteration(1)
    \/ CallOver(1)
    \/ \E activity \in 1..Len(store), items \in FewAnswers :
          _classify_activity(activity, items)

SpecReharvest == Init /\ [][ReharvestNext]_vars

\* The columns of an Activity that harvest_records does not write
Kept28(row) ==
    [f \in {"status", "author", "sdgs", "impact_summary"} |-> row[f]]

\* C28: a harvest that updates an existing Activity sets its ai_classified
\* to false and its lead_author to the default user, whatever
\* _classify_activity had set, and leaves the SDGImpact rows and the
\* Activity's sdgs, status, author and impact_summary as they were.
C28_ReharvestResetsFlagOnly ==
    [][\A k \in 1..Len(store) :
          (/\ run[1].pc = "loop"
           /\ run'[1].updated_count = run[1].updated_count + 1
           /\ store'[k].external_url =
                  run'[1].upserted[Len(run'[1].upserted)].external_url)
          => /\ store'[k].ai_classified = FALSE
             /\ store'[k].lead_author = default_lead_author
             /\ Kept28(store'[k]) = Kept28(store[k])
             /\ sdg_impacts' = sdg_impacts
             /\ classified' = classified]_vars

\* A hand-made Activity was classified, then updated by a harvest: it holds
\* SDGImpact rows, its ai_classified is false, its status and author are
\* those entered by hand
C28_Witness ==
    \E k \in 1..Len(store) :
        /\ run[1].updated_count = 1
        /\ store[k].external_url = run[1].upserted[1].external_url
        /\ <<k, <<u_3, u_1b>> >> \in classified
        /\ Cardinality(ImpactMatching(sdg_impacts, k, 3)) = 1
        /\ store[k].ai_classified = FALSE
        /\ store[k].is_scraped
        /\ store[k].status = "Completed"
        /\ store[k].sdgs = {3}

\* ------------------------------------------------------ the classifier global

\* The api_key arguments tried: None and two keys
ApiKeys == {"None", "k1", "k2"}

\* A thread calls get_classifier(api_key)
GetClassifier(t, api_key) ==
    /\ thread[t].pc = "idle"
    /\ thread' = [thread EXCEPT ![t] = [IdleThread EXCEPT !.pc = "test", !.api_key = api_key]]
    /\ UNCHANGED <<store, default_lead_author, run, prev, cmd, ex, call,
                   sdg_impacts, classified, _classifier, instances>>

\* if _classifier is None: the global is read
TestNone(t) ==
    /\ thread[t].pc = "test"
    /\ thread' = [thread EXCEPT ![t].pc =
                     IF _classifier = NoClassifier THEN "construct" ELSE "return"]
    /\ UNCHANGED <<store, default_lead_author, run, prev, cmd, ex, call,
                   sdg_impacts, classified, _classifier, instances>>

\* SDGClassifier(api_key): a new object, configured with the caller's key
Construct(t) ==
    /\ thread[t].pc = "construct"
    /\ instances' = [instances EXCEPT !.constructed = @ + 1]
    /\ thread' = [thread EXCEPT ![t].pc = "assign",
                                ![t].made = [id |-> instances.constructed + 1,
                                             api_key |-> thread[t].api_key]]
    /\ UNCHANGED <<store, default_lead_author, run, prev, cmd, ex, call,
                   sdg_impacts, classified, _classifier>>

\* _classifier = <the new object>
Assign(t) ==
    /\ thread[t].pc = "assign"
    /\ _classifier' = thread[t].made
    /\ thread' = [thread EXCEPT ![t].pc = "return"]
    /\ UNCHANGED <<store, default_lead_author, run, prev, cmd, ex, call,
                   sdg_impacts, classified, instances>>

\* return _classifier: the global is read again and handed to the caller
Return(t) ==
    /\ thread[t].pc = "return"
    /\ instances' = [instances EXCEPT !.received = @ \cup {_classifier}]
    /\ thread' = [thread EXCEPT ![t] = IdleThread]
    /\ UNCHANGED <<store, default_lead_author, run, prev, cmd, ex, call,
                   sdg_impacts, classified, _classifier>>

SingletonNext ==
    \E t \in Threads :
        \/ \E api_key \in ApiKeys : GetClassifier(t, api_key)
        \/ TestNone(t)
        \/ Construct(t)
        \/ Assign(t)
        \/ Return(t)

SpecSingleton == Init /\ [][SingletonNext]_vars

\* C30: whatever the interleaving of the threads inside get_classifier,
\* SDGClassifier is constructed at most once, every caller receives the
\* same object, and once the global is set it is never set again.
C30_OneClassifier ==
    /\ instances.constructed <= 1
    /\ Cardinality(instances.received) <= 1
    /\ \A c \in instances.received : c # NoClassifier /\ c.id = 1

====
